---- MODULE Spec2Model ----
(***************************************************************************)
(* A model of the read-only FAT32 reader of fat32-rs: the FAT entry        *)
(* decoder (vfat/fat.rs, vfat/cluster.rs), the cached sector store         *)
(* (vfat/cache.rs), the cluster layer (vfat/vfat.rs) and the path          *)
(* resolver (vfat/vfat.rs, vfat/dir.rs).                                   *)
(*                                                                         *)
(* A u32 read from the disk is kept as its four little-endian bytes        *)
(* <<b0, b1, b2, b3>>: TLC's integers are 32-bit signed, and every value   *)
(* the code computes with after masking fits into 28 bits.                 *)
(***************************************************************************)
EXTENDS Integers, Sequences, FiniteSets, TLC

VARIABLES
    device,     \* the block device: sector size, sectors' bytes, failing sectors
    partition,  \* CachedDevice.partition
    cache,      \* CachedDevice.cache: logical sector -> CacheEntry
    geom,       \* the VFat geometry fields
    call,       \* the last operation, its arguments and its outcome
    walk,       \* VFat::read_chain's locals while it runs
    ghost       \* history: what earlier calls did (no code reads it)

vars == <<device, partition, cache, geom, call, walk, ghost>>

None == [op |-> "none"]

Min(a, b) == IF a <= b THEN a ELSE b

Range(s) == {s[i] : i \in DOMAIN s}

RECURSIVE Flatten(_)
Flatten(ss) == IF ss = <<>> THEN <<>> ELSE Head(ss) \o Flatten(Tail(ss))

(***************************************************************************)
(* vfat/cluster.rs and vfat/fat.rs                                         *)
(***************************************************************************)

\* Cluster::from(raw): raw & !(0xF << 28), on the bytes of raw.
ClusterFrom(raw) ==
    raw[1] + 256 * raw[2] + 65536 * raw[3] + 16777216 * (raw[4] % 16)

\* FatEntry::status: the match arms in the order of the source.
FatEntryStatus(raw) ==
    LET id == ClusterFrom(raw) IN
    CASE id >= 2 /\ id <= 268435439          -> [tag |-> "Data", val |-> id]
      [] id >= 268435448 /\ id <= 268435455  -> [tag |-> "Eoc", val |-> id]
      [] id = 1 \/ (id >= 268435440 /\ id <= 268435447)
                                             -> [tag |-> "Reserved", val |-> 0]
      [] id = 0                              -> [tag |-> "Free", val |-> 0]
      [] OTHER                               -> [tag |-> "Unreachable", val |-> 0]

\* Cluster::data_offset: self.0 - 2 on u64; below 2 the subtraction overflows.
DataOffset(c) == c - 2

(***************************************************************************)
(* The FAT entry decoder on its own: raw values around every boundary of   *)
(* the table, under each pattern of the four reserved high bits.           *)
(***************************************************************************)

LowBytes == {0, 1, 2, 3, 238, 239, 240, 241, 245, 246, 247, 248, 249, 254, 255}
MidBytes == {0, 255}
HighBytes == {0, 15, 16, 31, 240, 255}
RawValues == {<<b0, b1, b2, b3>> : b0 \in LowBytes, b1 \in MidBytes,
                                   b2 \in MidBytes, b3 \in HighBytes}

Idle == [curr |-> 0, pc |-> "idle"]

FatInit ==
    /\ device = None
    /\ partition = None
    /\ cache = <<>>
    /\ geom = None
    /\ call \in {[op |-> "entry", raw |-> r] : r \in RawValues}
    /\ walk = Idle
    /\ ghost = None

Status ==
    /\ call.op = "entry"
    /\ call' = [op |-> "status", raw |-> call.raw, res |-> FatEntryStatus(call.raw)]
    /\ UNCHANGED <<device, partition, cache, geom, walk, ghost>>

FatNext == Status

SpecFat == FatInit /\ [][FatNext]_vars

\* The 28 low bits of a raw value, from its bytes.
Low28(raw) == raw[1] + 256 * raw[2] + 65536 * raw[3] + 16777216 * (raw[4] % 16)

\* C1: status() depends only on the low 28 bits m and follows the table:
\* Free for 0; Reserved for 1 and 0x0FFFFFF0..0x0FFFFFF6; Data(Cluster(m)) for
\* 2..=0x0FFFFFEF; Bad for 0x0FFFFFF7; Eoc for 0x0FFFFFF8..=0x0FFFFFFF.
C1_StatusTable ==
    call.op = "status" =>
        LET m == Low28(call.raw) IN
        /\ m = 0 => call.res.tag = "Free"
        /\ (m = 1 \/ (m >= 268435440 /\ m <= 268435446)) => call.res.tag = "Reserved"
        /\ (m >= 2 /\ m <= 268435439) => call.res = [tag |-> "Data", val |-> m]
        /\ m = 268435447 => call.res.tag = "Bad"
        /\ (m >= 268435448 /\ m <= 268435455) => call.res.tag = "Eoc"

(***************************************************************************)
(* The block device (traits::BlockDevice, consumed) and vfat/cache.rs      *)
(***************************************************************************)

\* The error a device gives for physical sector n.
DeviceError(n) == [kind |-> "Other", sector |-> n]

\* BlockDevice::read_all_sector(n, vec): appends sector n's bytes to vec, or
\* fails with the device's error and leaves nothing to the caller.
ReadAllSector(dev, n, vec) ==
    IF n \in DOMAIN dev.data /\ n \notin dev.failing
    THEN [ok |-> TRUE, vec |-> vec \o dev.data[n], err |-> None]
    ELSE [ok |-> FALSE, vec |-> vec, err |-> DeviceError(n)]

\* CachedDevice::new: assert!(partition.sector_size >= device.sector_size()).
CachedDeviceNewChecksMultiple(dev, part) ==
    IF part.sector_size >= dev.sector_size /\ part.sector_size % dev.sector_size = 0
    THEN [ok |-> TRUE, cache |-> <<>>, partition |-> part]
    ELSE [ok |-> FALSE, cache |-> <<>>, partition |-> part]

CachedDeviceNew(dev, part) ==
    IF part.sector_size >= dev.sector_size
    THEN [ok |-> TRUE, cache |-> <<>>, partition |-> part]
    ELSE [ok |-> FALSE, cache |-> <<>>, partition |-> part]

\* A virtual_to_physical that takes virt for a sector of the partition.
VirtualToPhysicalNoStart(dev, part, virt) ==
    IF dev.sector_size = part.sector_size THEN <<virt, 1>>
    ELSE <<virt * (part.sector_size \div dev.sector_size),
           part.sector_size \div dev.sector_size>>

\* CachedDevice::virtual_to_physical(virt) -> (physical sector, count).
VirtualToPhysical(dev, part, virt) ==
    IF dev.sector_size = part.sector_size THEN <<virt, 1>>
    ELSE IF virt < part.start THEN <<virt, 1>>
    ELSE LET factor == part.sector_size \div dev.sector_size
             logical_offset == virt - part.start
             physical_offset == logical_offset * factor
             physical_sector == part.start + physical_offset
         IN <<physical_sector, factor>>

\* The loop of get_internal's Vacant arm: for i in phys..(phys + count)
\* { device.read_all_sector(i, &mut data)?; }. reads lists the sectors asked of
\* the device, the failing one included.
RECURSIVE ReadPhysical(_, _, _, _, _)
ReadPhysical(dev, i, end, data, reads) ==
    IF i >= end THEN [ok |-> TRUE, data |-> data, err |-> None, reads |-> reads]
    ELSE LET then(r) ==
                 IF r.ok THEN ReadPhysical(dev, i + 1, end, r.vec, Append(reads, i))
                 ELSE [ok |-> FALSE, data |-> <<>>, err |-> r.err,
                       reads |-> Append(reads, i)]
         IN then(ReadAllSector(dev, i, data))

\* get_internal with a miss that reads the device and inserts nothing.
GetInternalNoInsert(dev, part, cch, sector, dirty) ==
    LET read(pc) == ReadPhysical(dev, pc[1], pc[1] + pc[2], <<>>, <<>>)
        miss(r) == [ok |-> r.ok, data |-> r.data, err |-> r.err,
                    reads |-> r.reads, cache |-> cch]
    IN IF sector \in DOMAIN cch
       THEN [ok |-> TRUE, data |-> cch[sector].data, err |-> None, reads |-> <<>>,
             cache |-> IF dirty THEN [cch EXCEPT ![sector].dirty = TRUE] ELSE cch]
       ELSE miss(read(VirtualToPhysical(dev, part, sector + part.start)))

\* get_internal that inserts, on a failed read, what it has read so far.
GetInternalInsertPartial(dev, part, cch, sector, dirty) ==
    LET read(pc) == ReadPhysical(dev, pc[1], pc[1] + pc[2], <<>>, <<>>)
        miss(r) == [ok |-> r.ok, data |-> r.data, err |-> r.err,
                    reads |-> r.reads,
                    cache |-> (sector :> [data |-> r.data, dirty |-> dirty]) @@ cch]
    IN IF sector \in DOMAIN cch
       THEN [ok |-> TRUE, data |-> cch[sector].data, err |-> None, reads |-> <<>>,
             cache |-> IF dirty THEN [cch EXCEPT ![sector].dirty = TRUE] ELSE cch]
       ELSE miss(read(VirtualToPhysical(dev, part, sector + part.start)))

\* CachedDevice::get_internal(sector, dirty).
GetInternal(dev, part, cch, sector, dirty) ==
    LET read(pc) == ReadPhysical(dev, pc[1], pc[1] + pc[2], <<>>, <<>>)
        miss(r) ==
            IF r.ok
            THEN [ok |-> TRUE, data |-> r.data, err |-> None, reads |-> r.reads,
                  cache |-> (sector :> [data |-> r.data, dirty |-> dirty]) @@ cch]
            ELSE [ok |-> FALSE, data |-> <<>>, err |-> r.err, reads |-> r.reads,
                  cache |-> cch]
    IN IF sector \in DOMAIN cch
       THEN [ok |-> TRUE, data |-> cch[sector].data, err |-> None, reads |-> <<>>,
             cache |-> IF dirty THEN [cch EXCEPT ![sector].dirty = TRUE] ELSE cch]
       ELSE miss(read(VirtualToPhysical(dev, part, sector + part.start)))

\* CachedDevice::get(sector) and get_mut(sector).
CacheGet(dev, part, cch, sector) == GetInternal(dev, part, cch, sector, FALSE)

CacheGetMut(dev, part, cch, sector) == GetInternal(dev, part, cch, sector, TRUE)

(***************************************************************************)
(* The cached sector store on its own: a device and a partition are        *)
(* chosen, the store is built, and get and get_mut are called in any       *)
(* order while the device's failing sectors may be repaired.               *)
(***************************************************************************)

MaxSector == 2
DevSectors == 6
DeviceSizes == {1, 2}
PartitionSizes == {1, 2, 3, 4}
PartitionStarts == {0, 1}

\* A device whose every byte tells its sector and its place in it.
PatternDevice(size, failing) ==
    [sector_size |-> size,
     data |-> [p \in 0..(DevSectors - 1) |->
                  [i \in 1..size |-> (p * size + (i - 1)) % 256]],
     failing |-> failing]

CacheInit ==
    /\ device \in {PatternDevice(size, failing) :
                      size \in DeviceSizes,
                      failing \in {{}} \cup {{p} : p \in 0..(DevSectors - 1)}}
    /\ partition = None
    /\ cache = <<>>
    /\ geom = None
    /\ call = None
    /\ walk = Idle
    /\ ghost = [built |-> "no", ok |-> {}, failed |-> {}]

New ==
    /\ ghost.built = "no"
    /\ \E start \in PartitionStarts, size \in PartitionSizes :
          LET part == [start |-> start, sector_size |-> size]
              r == CachedDeviceNew(device, part)
          IN /\ call' = [op |-> "new", ok |-> r.ok]
             /\ partition' = r.partition
             /\ cache' = r.cache
             /\ ghost' = [ghost EXCEPT !.built = IF r.ok THEN "yes" ELSE "aborted"]
    /\ UNCHANGED <<device, geom, walk>>

Access(name, dirty) ==
    /\ ghost.built = "yes"
    /\ \E sector \in 0..MaxSector :
          LET r == GetInternal(device, partition, cache, sector, dirty) IN
          /\ call' = [op |-> name, sector |-> sector, ok |-> r.ok, data |-> r.data,
                      err |-> r.err, reads |-> r.reads, before |-> cache,
                      seen |-> sector \in ghost.ok,
                      failedLast |-> sector \in ghost.failed]
          /\ cache' = r.cache
          /\ ghost' = [ghost EXCEPT
                          !.ok = IF r.ok THEN @ \cup {sector} ELSE @,
                          !.failed = IF r.ok THEN @ \ {sector} ELSE @ \cup {sector}]
    /\ UNCHANGED <<device, partition, geom, walk>>

Get == Access("get", FALSE)

GetMut == Access("get_mut", TRUE)

\* The environment: the cause of the device's failures goes away.
Repair ==
    /\ ghost.built = "yes"
    /\ device.failing # {}
    /\ device' = [device EXCEPT !.failing = {}]
    /\ call' = [op |-> "repair"]
    /\ UNCHANGED <<partition, cache, geom, walk, ghost>>

CacheNext == New \/ Get \/ GetMut \/ Repair

SpecCache == CacheInit /\ [][CacheNext]_vars

IsAccess == call.op \in {"get", "get_mut"}

\* C6: a sector that an earlier get or get_mut returned is never read from the
\* device again: a later get of it or get_mut of it succeeds with zero device
\* reads and returns the cached bytes, and get_mut leaves its entry dirty;
\* the device is read only in an access to a sector that none has returned yet.
C6_CacheIdempotence ==
    IsAccess =>
        /\ call.seen =>
              /\ call.ok
              /\ call.reads = <<>>
              /\ call.data = call.before[call.sector].data
              /\ call.op = "get_mut" => cache[call.sector].dirty
        /\ call.reads # <<>> => ~call.seen

C6_Witness ==
    /\ call.op = "get_mut"
    /\ call.seen
    /\ ~call.before[call.sector].dirty
    /\ Len(call.data) > 1

\* The physical sectors that back logical sector s of the partition.
Backing(s) ==
    LET factor == IF device.sector_size = partition.sector_size THEN 1
                  ELSE partition.sector_size \div device.sector_size
        first == partition.start + s * factor
    IN first..(first + factor - 1)

Unreadable(p) == p \notin DOMAIN device.data \/ p \in device.failing

\* C7: when a physical read that backs a missed sector fails, get and get_mut
\* return the error of the first failing sector as the device gave it, the
\* cache is what it was before the call, and a get of a sector whose last
\* access failed reads the device again.
C7_FailedReadLeavesCache ==
    IsAccess =>
        /\ (call.sector \notin DOMAIN call.before
              /\ \E p \in Backing(call.sector) : Unreadable(p))
           => /\ ~call.ok
              /\ \E p \in Backing(call.sector) :
                    /\ Unreadable(p)
                    /\ \A q \in Backing(call.sector) : q < p => ~Unreadable(q)
                    /\ call.err = DeviceError(p)
              /\ cache = call.before
        /\ call.failedLast => call.reads # <<>>

C7_Witness ==
    /\ IsAccess
    /\ ~call.ok
    /\ Len(call.reads) > 1
    /\ call.failedLast
    /\ call.before # <<>>

\* C8 as stated: new aborts whenever partition.sector_size is below the
\* device's sector size or is no multiple of it, and else succeeds with an
\* empty cache.
C8_NewRejectsNonMultiple ==
    call.op = "new" =>
        /\ ~call.ok <=> (partition.sector_size < device.sector_size
                           \/ partition.sector_size % device.sector_size # 0)
        /\ call.ok => cache = <<>>

\* C8 amended: new aborts exactly when partition.sector_size is below the
\* device's sector size, and else succeeds with an empty cache, a sector size
\* that is no multiple of the device's included.
C8_NewRejectsSmaller ==
    call.op = "new" =>
        /\ ~call.ok <=> partition.sector_size < device.sector_size
        /\ call.ok => cache = <<>>

C8_Witness ==
    /\ call.op = "new"
    /\ call.ok
    /\ partition.sector_size % device.sector_size # 0


(***************************************************************************)
(* vfat/vfat.rs: the cluster layer.  An operation ends "ok", with an       *)
(* io::Error ("err") or in a panic ("panic": a failed assert!, panic! or   *)
(* slice index).                                                           *)
(***************************************************************************)

InvalidData == [kind |-> "InvalidData", sector |-> 0]

\* VFat::from, the geometry it derives from the BIOS parameter block.
VFatFrom(bpb) ==
    LET data_start_sector == bpb.reserved_sectors + bpb.sectors_per_fat * bpb.fat_count
        logical_sectors == IF bpb.logical_sectors_small # 0
                           THEN bpb.logical_sectors_small
                           ELSE bpb.logical_sectors_large
    IN [bytes_per_sector |-> bpb.sector_bytes,
        sectors_per_cluster |-> bpb.sectors_per_cluster,
        sectors_per_fat |-> bpb.sectors_per_fat,
        fat_start_sector |-> bpb.reserved_sectors,
        data_start_sector |-> data_start_sector,
        root_dir_cluster |-> ClusterFrom(bpb.root_start_cluster),
        data_sectors |-> logical_sectors - data_start_sector]

\* VFat::coords(cluster, offset) -> (start_sector..end_sector, sector_offset).
Coords(g, cluster, offset) ==
    LET cluster_start_sector ==
            g.data_start_sector + DataOffset(cluster) * g.sectors_per_cluster
    IN [start |-> cluster_start_sector + offset \div g.bytes_per_sector,
        end |-> cluster_start_sector + g.sectors_per_cluster,
        sector_offset |-> offset % g.bytes_per_sector]

\* <&mut [u8] as io::Write>::write: copies into the slice from place pos on
\* what fits of src; the slice keeps its length.
SliceWrite(buf, pos, src) ==
    LET n == Min(Len(src), Len(buf) - pos) IN
    [n |-> n,
     buf |-> [i \in 1..Len(buf) |->
                 IF i > pos /\ i <= pos + n THEN src[i - pos] ELSE buf[i]]]

\* The loop of read_cluster: for sector in sectors { ... }.
RECURSIVE ReadClusterLoop(_, _, _, _, _, _, _, _, _, _)
ReadClusterLoop(dev, part, cch, sector, co, buf, pos, bytes_read, reads, gets) ==
    IF sector >= co.end
    THEN [outcome |-> "ok", n |-> bytes_read, buf |-> buf, err |-> None,
          cache |-> cch, reads |-> reads, gets |-> gets]
    ELSE LET src(r) == IF sector # co.start THEN r.data
                       ELSE SubSeq(r.data, co.sector_offset + 1, Len(r.data))
             written(r, w) ==
                 ReadClusterLoop(dev, part, r.cache, sector + 1, co, w.buf,
                                 pos + w.n, bytes_read + w.n, reads \o r.reads,
                                 Append(gets, sector))
             got(r) ==
                 IF ~r.ok
                 THEN [outcome |-> "err", n |-> 0, buf |-> buf, err |-> r.err,
                       cache |-> r.cache, reads |-> reads \o r.reads,
                       gets |-> Append(gets, sector)]
                 ELSE IF sector = co.start /\ co.sector_offset > Len(r.data)
                 THEN [outcome |-> "panic", n |-> 0, buf |-> buf, err |-> None,
                       cache |-> r.cache, reads |-> reads \o r.reads,
                       gets |-> Append(gets, sector)]
                 ELSE written(r, SliceWrite(buf, pos, src(r)))
         IN got(CacheGet(dev, part, cch, sector))

\* read_cluster that writes each sector at the start of the buffer.
ReadClusterNoAdvance(dev, part, cch, g, cluster, offset, buf) ==
    IF ~(offset < g.sectors_per_cluster * g.bytes_per_sector)
    THEN [outcome |-> "panic", n |-> 0, buf |-> buf, err |-> None,
          cache |-> cch, reads |-> <<>>, gets |-> <<>>]
    ELSE LET written(co, r, w) ==
                 [outcome |-> "ok", n |-> w.n, buf |-> w.buf, err |-> None,
                  cache |-> r.cache, reads |-> r.reads, gets |-> <<co.start>>]
             got(co, r) ==
                 IF ~r.ok
                 THEN [outcome |-> "err", n |-> 0, buf |-> buf, err |-> r.err,
                       cache |-> r.cache, reads |-> r.reads, gets |-> <<co.start>>]
                 ELSE written(co, r, SliceWrite(buf, 0, r.data))
             at(co) == got(co, CacheGet(dev, part, cch, co.start))
         IN at(Coords(g, cluster, offset))

\* VFat::read_cluster(cluster, offset, buf).
ReadCluster(dev, part, cch, g, cluster, offset, buf) ==
    IF ~(offset < g.sectors_per_cluster * g.bytes_per_sector)
    THEN [outcome |-> "panic", n |-> 0, buf |-> buf, err |-> None,
          cache |-> cch, reads |-> <<>>, gets |-> <<>>]
    ELSE LET from(co) ==
                 ReadClusterLoop(dev, part, cch, co.start, co, buf, 0, 0, <<>>, <<>>)
         IN from(Coords(g, cluster, offset))

\* A fat_entry whose byte offset into the table is kept at 16 bits.
FatEntryNarrowOffset(dev, part, cch, g, cluster) ==
    IF cluster < 2 \/ ~(DataOffset(cluster) < g.data_sectors)
    THEN [outcome |-> "panic", raw |-> <<>>, err |-> None, cache |-> cch,
          reads |-> <<>>, gets |-> <<>>]
    ELSE LET cluster_fat_offset == (cluster % 16384) * 4
             entry_sector == g.fat_start_sector
                                + cluster_fat_offset \div g.bytes_per_sector
             entry_offset == cluster_fat_offset % g.bytes_per_sector
             got(r) ==
                 IF ~r.ok
                 THEN [outcome |-> "err", raw |-> <<>>, err |-> r.err,
                       cache |-> r.cache, reads |-> r.reads,
                       gets |-> <<entry_sector>>]
                 ELSE IF entry_offset + 4 > Len(r.data)
                 THEN [outcome |-> "panic", raw |-> <<>>, err |-> None,
                       cache |-> r.cache, reads |-> r.reads,
                       gets |-> <<entry_sector>>]
                 ELSE [outcome |-> "ok",
                       raw |-> SubSeq(r.data, entry_offset + 1, entry_offset + 4),
                       err |-> None, cache |-> r.cache, reads |-> r.reads,
                       gets |-> <<entry_sector>>]
         IN got(CacheGetMut(dev, part, cch, entry_sector))

\* VFat::fat_entry(cluster): the four bytes of the entry, as the cache holds
\* them.  cluster.id() * 4 is a u32 product, kept at 32 bits (the low 30 bits
\* of the cluster, times 4).  For a cluster below 2 data_offset() overflows: a panic in a debug
\* build, and in a release build a value that fails the assert! all the same.
FatEntry(dev, part, cch, g, cluster) ==
    IF cluster < 2 \/ ~(DataOffset(cluster) < g.data_sectors)
    THEN [outcome |-> "panic", raw |-> <<>>, err |-> None, cache |-> cch,
          reads |-> <<>>, gets |-> <<>>]
    ELSE LET cluster_fat_offset == (cluster % 1073741824) * 4
             entry_sector == g.fat_start_sector
                                + cluster_fat_offset \div g.bytes_per_sector
             entry_offset == cluster_fat_offset % g.bytes_per_sector
             got(r) ==
                 IF ~r.ok
                 THEN [outcome |-> "err", raw |-> <<>>, err |-> r.err,
                       cache |-> r.cache, reads |-> r.reads,
                       gets |-> <<entry_sector>>]
                 ELSE IF entry_offset + 4 > Len(r.data)
                 THEN [outcome |-> "panic", raw |-> <<>>, err |-> None,
                       cache |-> r.cache, reads |-> r.reads,
                       gets |-> <<entry_sector>>]
                 ELSE [outcome |-> "ok",
                       raw |-> SubSeq(r.data, entry_offset + 1, entry_offset + 4),
                       err |-> None, cache |-> r.cache, reads |-> r.reads,
                       gets |-> <<entry_sector>>]
         IN got(CacheGetMut(dev, part, cch, entry_sector))

(***************************************************************************)
(* Disk images.  A layout gives the sector sizes and the BIOS parameter    *)
(* block's numbers; the image holds one reserved sector, the FAT copies    *)
(* and the data clusters 2..MaxCluster, each byte of a data sector telling *)
(* its sector and its place in it.                                         *)
(***************************************************************************)

MaxCluster == 3

Eoc == <<248, 255, 255, 15>>
EocHigh == <<255, 255, 255, 255>>
BadMark == <<247, 255, 255, 15>>
FreeMark == <<0, 0, 0, 0>>
ReservedMark == <<1, 0, 0, 0>>
Link(c) == <<c, 0, 0, 0>>
LinkHigh(c) == <<c, 0, 0, 240>>

SectorsPerFat(lay) ==
    ((MaxCluster + 1) * 4 + lay.sector_bytes - 1) \div lay.sector_bytes

TotalSectors(lay) ==
    1 + lay.fat_count * SectorsPerFat(lay) + (MaxCluster - 1) * lay.sectors_per_cluster

Bpb(lay) ==
    [sector_bytes |-> lay.sector_bytes,
     sectors_per_cluster |-> lay.sectors_per_cluster,
     reserved_sectors |-> 1,
     fat_count |-> lay.fat_count,
     sectors_per_fat |-> SectorsPerFat(lay),
     logical_sectors_small |-> IF lay.small THEN TotalSectors(lay) ELSE 0,
     logical_sectors_large |-> IF lay.small THEN 0 ELSE TotalSectors(lay),
     root_start_cluster |-> <<2, 0, 0, 0>>]

\* The bytes of cluster c's entry in the table: the media and end marks for
\* 0 and 1, zero past the last cluster.
TableEntry(fat, c) ==
    IF c = 0 THEN Eoc ELSE IF c = 1 THEN EocHigh
    ELSE IF c \in DOMAIN fat THEN fat[c] ELSE FreeMark

DataByte(l, j, size) == (l * size + j + 16) % 256

\* The bytes of logical sector l of the partition.
LogicalSector(lay, fat, l) ==
    LET size == lay.sector_bytes
        spf == SectorsPerFat(lay)
    IN IF l < 1 THEN [j \in 1..size |-> 0]
       ELSE IF l < 1 + lay.fat_count * spf
       THEN LET fl == (l - 1) % spf
                per == size \div 4
            IN Flatten([k \in 1..per |-> TableEntry(fat, fl * per + (k - 1))])
       ELSE [j \in 1..size |-> DataByte(l, j - 1, size)]

ImageDevice(lay, fat, failing) ==
    LET factor == lay.sector_bytes \div lay.device_bytes IN
    [sector_size |-> lay.device_bytes,
     data |-> [p \in 0..(lay.start + TotalSectors(lay) * factor - 1) |->
                 IF p < lay.start THEN [i \in 1..lay.device_bytes |-> 0]
                 ELSE LET l == (p - lay.start) \div factor
                          k == (p - lay.start) % factor
                      IN SubSeq(LogicalSector(lay, fat, l),
                                k * lay.device_bytes + 1, (k + 1) * lay.device_bytes)],
     failing |-> failing]

\* The bytes of data cluster c, as the image holds them.
ClusterBytes(lay, fat, c) ==
    LET first == 1 + lay.fat_count * SectorsPerFat(lay)
                   + (c - 2) * lay.sectors_per_cluster
    IN Flatten([k \in 1..lay.sectors_per_cluster |->
                   LogicalSector(lay, fat, first + (k - 1))])

ClusterSize(lay) == lay.sectors_per_cluster * lay.sector_bytes

Filler(n) == [i \in 1..n |-> 170]

Layouts ==
    { [device_bytes |-> 4, sector_bytes |-> 4, sectors_per_cluster |-> 1,
       start |-> 0, fat_count |-> 1, small |-> TRUE],
      [device_bytes |-> 2, sector_bytes |-> 4, sectors_per_cluster |-> 2,
       start |-> 1, fat_count |-> 2, small |-> FALSE],
      [device_bytes |-> 4, sector_bytes |-> 8, sectors_per_cluster |-> 2,
       start |-> 1, fat_count |-> 1, small |-> FALSE] }

\* The table of one chain through every cluster, 2 -> 3 -> ... -> Eoc.
OneChain ==
    [c \in 2..MaxCluster |-> IF c < MaxCluster THEN Link(c + 1) ELSE Eoc]

(***************************************************************************)
(* The cluster layer on its own: on a mounted image read_cluster and       *)
(* fat_entry are called in any order.                                      *)
(***************************************************************************)

VfatInit ==
    /\ \E lay \in Layouts :
          /\ device = ImageDevice(lay, OneChain, {})
          /\ partition = [start |-> lay.start, sector_size |-> lay.sector_bytes]
          /\ geom = VFatFrom(Bpb(lay))
          /\ ghost = [layout |-> lay, fat |-> OneChain, first |-> None]
    /\ cache = <<>>
    /\ call = None
    /\ walk = Idle

Running == IF call.op = "none" THEN TRUE ELSE call.outcome # "panic"

\* The arguments the calls are made with: the first and the last cluster, the
\* cluster past the image's end, offsets at the start, inside the first
\* sector, inside the last sector and at the cluster's end, buffers shorter
\* than, as long as and longer than what is left of the cluster.
ProbedClusters == {2, MaxCluster, MaxCluster + 1}
ProbedOffsets(lay) == {0, 1, ClusterSize(lay) - 1, ClusterSize(lay)}
ProbedLengths(lay) == {0, 1, ClusterSize(lay) - 1, ClusterSize(lay) + 1}

CallReadCluster ==
    /\ Running
    /\ \E cluster \in ProbedClusters,
          offset \in ProbedOffsets(ghost.layout),
          len \in ProbedLengths(ghost.layout) :
          LET r == ReadCluster(device, partition, cache, geom, cluster, offset,
                               Filler(len))
              c == [op |-> "read_cluster", cluster |-> cluster, offset |-> offset,
                    len |-> len, outcome |-> r.outcome, n |-> r.n, buf |-> r.buf,
                    err |-> r.err, hit |-> r.reads = <<>>]
          IN /\ call' = c
             /\ cache' = r.cache
             /\ ghost' = IF /\ ghost.first = None
                            /\ r.outcome = "ok"
                            /\ offset = 1
                            /\ len = ClusterSize(ghost.layout) - 1
                         THEN [ghost EXCEPT !.first = c] ELSE ghost
    /\ UNCHANGED <<device, partition, geom, walk>>

CallFatEntry ==
    /\ Running
    /\ \E cluster \in {0, 1} \cup ProbedClusters :
          LET r == FatEntry(device, partition, cache, geom, cluster) IN
          /\ call' = [op |-> "fat_entry", cluster |-> cluster, outcome |-> r.outcome,
                      raw |-> r.raw, err |-> r.err, hit |-> r.reads = <<>>]
          /\ cache' = r.cache
    /\ UNCHANGED <<device, partition, geom, walk, ghost>>

VfatNext == CallReadCluster \/ CallFatEntry

SpecVfat == VfatInit /\ [][VfatNext]_vars

\* C2: for a data cluster c and an offset o below the cluster size, a
\* read_cluster(c, o, buf) whose device reads succeed returns
\* min(buf.len(), cluster_bytes - o), fills that many bytes of buf with the
\* bytes of cluster c from offset o on and leaves the rest of buf alone; the
\* same call made again after other reads returns the same count and bytes.
C2_ReadClusterBytes ==
    (call.op = "read_cluster" /\ call.outcome = "ok") =>
        LET size == ClusterSize(ghost.layout)
            n == Min(call.len, size - call.offset)
            bytes == ClusterBytes(ghost.layout, ghost.fat, call.cluster)
        IN /\ call.offset < size
           /\ call.n = n
           /\ Len(call.buf) = call.len
           /\ \A i \in 1..call.len :
                 call.buf[i] = IF i <= n THEN bytes[call.offset + i] ELSE 170
           /\ (ghost.first # None /\ ghost.first.cluster = call.cluster /\ ghost.first.offset = call.offset
                 /\ ghost.first.len = call.len)
              => (ghost.first.n = call.n /\ ghost.first.buf = call.buf)

C2_Witness ==
    /\ call.op = "read_cluster"
    /\ call.outcome = "ok"
    /\ call.offset % ghost.layout.sector_bytes # 0
    /\ call.offset < ghost.layout.sector_bytes
    /\ call.len = ClusterSize(ghost.layout) - 1
    /\ ghost.layout.sectors_per_cluster > 1
    /\ ghost.first # None
    /\ ghost.first # call
    /\ ghost.first.cluster = call.cluster
    /\ ghost.first.offset = call.offset
    /\ ghost.first.len = call.len
    /\ call.hit

(***************************************************************************)
(* VFat::read_chain.  Each turn of its loop is one step, so that the       *)
(* walk's end is something the check decides.                              *)
(***************************************************************************)

Finish(w, outcome, n, err) ==
    [op |-> "read_chain", start |-> w.start, outcome |-> outcome, n |-> n,
     err |-> err, buf |-> w.buf, buf0 |-> w.buf0, visited |-> w.visited,
     last |-> w.curr]

\* One turn of the loop that takes a Data entry for the chain's end.
ChainTurnStopsAtData(dev, part, cch, g, w) ==
    LET end(e, rc, read) ==
            IF e.outcome = "ok" /\ rc.outcome = "ok"
            THEN [walk |-> [read EXCEPT !.pc = "done"], cache |-> rc.cache,
                  call |-> Finish(read, "ok", read.bytes_read, None)]
            ELSE [walk |-> [w EXCEPT !.pc = "aborted"], cache |-> cch,
                  call |-> Finish(w, "panic", 0, None)]
        after(e, rc) ==
            end(e, rc, [w EXCEPT !.bytes_read = @ + rc.n, !.buf = rc.buf,
                                 !.visited = Append(@, w.curr)])
        with(e) == after(e, ReadCluster(dev, part, e.cache, g, w.curr, 0, w.buf))
    IN with(FatEntry(dev, part, cch, g, w.curr))

\* One turn of the loop that reads the cluster's bytes first and looks at
\* the entry's status afterwards.
ChainTurnReadsFirst(dev, part, cch, g, w) ==
    LET matched(st, rc, read) ==
            IF st.tag \in {"Reserved", "Free", "Unreachable"}
                 \/ rc.outcome = "panic"
            THEN [walk |-> [w EXCEPT !.pc = "aborted"], cache |-> rc.cache,
                  call |-> Finish(w, "panic", 0, None)]
            ELSE IF rc.outcome = "err"
            THEN [walk |-> [w EXCEPT !.pc = "done", !.buf = rc.buf],
                  cache |-> rc.cache,
                  call |-> Finish([w EXCEPT !.buf = rc.buf], "err", 0, rc.err)]
            ELSE IF st.tag = "Data"
            THEN [walk |-> [read EXCEPT !.curr = st.val], cache |-> rc.cache,
                  call |-> None]
            ELSE IF st.tag = "Eoc"
            THEN [walk |-> [read EXCEPT !.pc = "done"], cache |-> rc.cache,
                  call |-> Finish(read, "ok", read.bytes_read, None)]
            ELSE [walk |-> [read EXCEPT !.pc = "done"], cache |-> rc.cache,
                  call |-> Finish(read, "err", 0, InvalidData)]
        read_cluster(st, rc) ==
            matched(st, rc, [w EXCEPT !.bytes_read = @ + rc.n, !.buf = rc.buf,
                                      !.visited = Append(@, w.curr)])
        fat_entry(e) ==
            IF e.outcome = "panic"
            THEN [walk |-> [w EXCEPT !.pc = "aborted"], cache |-> e.cache,
                  call |-> Finish(w, "panic", 0, None)]
            ELSE IF e.outcome = "err"
            THEN [walk |-> [w EXCEPT !.pc = "done"], cache |-> e.cache,
                  call |-> Finish(w, "err", 0, e.err)]
            ELSE read_cluster(FatEntryStatus(e.raw),
                              ReadCluster(dev, part, e.cache, g, w.curr, 0, w.buf))
    IN fat_entry(FatEntry(dev, part, cch, g, w.curr))

\* One turn of read_chain's loop, from the state w of its locals: the walk
\* after it, the cache after it and, when the call ends in it, its outcome.
ChainTurn(dev, part, cch, g, w) ==
    LET matched(st, rc, read) ==
            IF rc.outcome = "panic"
            THEN [walk |-> [w EXCEPT !.pc = "aborted"], cache |-> rc.cache,
                  call |-> Finish(w, "panic", 0, None)]
            ELSE IF rc.outcome = "err"
            THEN [walk |-> [w EXCEPT !.pc = "done", !.buf = rc.buf],
                  cache |-> rc.cache,
                  call |-> Finish([w EXCEPT !.buf = rc.buf], "err", 0, rc.err)]
            ELSE IF st.tag = "Data"
            THEN [walk |-> [read EXCEPT !.curr = st.val], cache |-> rc.cache,
                  call |-> None]
            ELSE IF st.tag = "Eoc"
            THEN [walk |-> [read EXCEPT !.pc = "done"], cache |-> rc.cache,
                  call |-> Finish(read, "ok", read.bytes_read, None)]
            ELSE [walk |-> [read EXCEPT !.pc = "done"], cache |-> rc.cache,
                  call |-> Finish(read, "err", 0, InvalidData)]
        read_cluster(st, rc) ==
            matched(st, rc, [w EXCEPT !.bytes_read = @ + rc.n, !.buf = rc.buf,
                                      !.visited = Append(@, w.curr)])
        status(e, st) ==
            IF st.tag \in {"Reserved", "Free", "Unreachable"}
            THEN [walk |-> [w EXCEPT !.pc = "aborted"], cache |-> e.cache,
                  call |-> Finish(w, "panic", 0, None)]
            ELSE read_cluster(st, ReadCluster(dev, part, e.cache, g, w.curr, 0,
                                              w.buf))
        fat_entry(e) ==
            IF e.outcome = "panic"
            THEN [walk |-> [w EXCEPT !.pc = "aborted"], cache |-> e.cache,
                  call |-> Finish(w, "panic", 0, None)]
            ELSE IF e.outcome = "err"
            THEN [walk |-> [w EXCEPT !.pc = "done"], cache |-> e.cache,
                  call |-> Finish(w, "err", 0, e.err)]
            ELSE status(e, FatEntryStatus(e.raw))
    IN fat_entry(FatEntry(dev, part, cch, g, w.curr))

(***************************************************************************)
(* The chain walk on its own: images whose table gives every cluster any   *)
(* mark or any link, well-formed chains, broken chains and cycles alike;   *)
(* read_chain is called from any cluster, one call after the other.        *)
(***************************************************************************)

ChainLayouts ==
    { [device_bytes |-> 4, sector_bytes |-> 4, sectors_per_cluster |-> 1,
       start |-> 0, fat_count |-> 1, small |-> TRUE],
      [device_bytes |-> 2, sector_bytes |-> 4, sectors_per_cluster |-> 2,
       start |-> 1, fat_count |-> 2, small |-> FALSE] }

EntryChoices(c) ==
    {Eoc, EocHigh, BadMark, FreeMark, ReservedMark, LinkHigh(c + 1)}
        \cup {Link(d) : d \in 2..(MaxCluster + 1)}

FatTables == {f \in [2..MaxCluster -> UNION {EntryChoices(c) : c \in 2..MaxCluster}] :
                 \A c \in 2..MaxCluster : f[c] \in EntryChoices(c)}

ChainInit ==
    /\ \E lay \in ChainLayouts, fat \in FatTables :
          /\ device = ImageDevice(lay, fat, {})
          /\ partition = [start |-> lay.start, sector_size |-> lay.sector_bytes]
          /\ geom = VFatFrom(Bpb(lay))
          /\ ghost = [layout |-> lay, fat |-> fat]
    /\ cache = <<>>
    /\ call = None
    /\ walk = Idle

ReadChainStart ==
    /\ walk.pc \in {"idle", "done"}
    /\ \E start \in 2..(MaxCluster + 1),
          buf \in {<<>>, Filler(1), Filler(ClusterSize(ghost.layout) + 1)} :
          walk' = [pc |-> "loop", start |-> start, curr |-> start, bytes_read |-> 0,
                   buf |-> buf, buf0 |-> buf, visited |-> <<>>]
    /\ call' = None
    /\ UNCHANGED <<device, partition, cache, geom, ghost>>

\* A walk that has taken more turns than the image has clusters is in a
\* cycle and never ends; the model follows it no further.
ReadChainStep ==
    /\ walk.pc = "loop"
    /\ Len(walk.visited) <= MaxCluster
    /\ LET t == ChainTurn(device, partition, cache, geom, walk) IN
       /\ walk' = t.walk
       /\ cache' = t.cache
       /\ call' = t.call
    /\ UNCHANGED <<device, partition, geom, ghost>>

ChainNext == ReadChainStart \/ ReadChainStep

SpecChain == ChainInit /\ [][ChainNext]_vars

\* What the FAT specification makes of a table entry's low 28 bits.
IsEocMark(raw) == Low28(raw) >= 268435448
IsBadMark(raw) == Low28(raw) = 268435447
IsLink(raw) == Low28(raw) >= 2 /\ Low28(raw) <= 268435439

\* The clusters of the chain from cluster c on, by the table of the image:
\* links are followed up to the cluster whose entry is an end mark; a chain
\* that leaves the image, meets another mark or is longer than `fuel` (a
\* cycle) has no such sequence.
RECURSIVE ChainFrom(_, _, _)
ChainFrom(fat, c, fuel) ==
    IF fuel = 0 \/ c \notin DOMAIN fat THEN <<0>>
    ELSE IF IsEocMark(fat[c]) THEN <<c>>
    ELSE IF IsLink(fat[c]) THEN <<c>> \o ChainFrom(fat, Low28(fat[c]), fuel - 1)
    ELSE <<0>>

ChainOf(c) == ChainFrom(ghost.fat, c, MaxCluster - 1)

WellFormed(c) == 0 \notin Range(ChainOf(c))

OnChain(s, done) ==
    /\ Len(done) <= Len(ChainOf(s))
    /\ done = SubSeq(ChainOf(s), 1, Len(done))

\* C4: on a well-formed chain (links that end in an Eoc entry, no cycle)
\* read_chain terminates, having read each cluster of the chain exactly once,
\* in chain order, the cluster whose entry is Eoc last.  While the walk runs
\* the clusters it has read are a proper prefix of the chain and it stands at
\* the chain's next cluster (so the loop's next turn, ReadChainStep, can be
\* taken); every turn reads that one cluster more; and the walk ends, with
\* Ok, in the turn that reads the chain's last cluster, whose entry is Eoc.
\* The turns left are the clusters of the chain not yet read: as many turns
\* as the chain has clusters end the walk.
C4_WalkTerminates ==
    /\ [](walk.pc = "loop" /\ WellFormed(walk.start)
            => /\ OnChain(walk.start, walk.visited)
               /\ Len(walk.visited) < Len(ChainOf(walk.start))
               /\ walk.curr = ChainOf(walk.start)[Len(walk.visited) + 1])
    /\ [][walk.pc = "loop" /\ WellFormed(walk.start)
            => /\ walk'.visited = Append(walk.visited, walk.curr)
               /\ walk'.start = walk.start
               /\ IF Len(walk'.visited) < Len(ChainOf(walk.start))
                  THEN walk'.pc = "loop"
                  ELSE /\ walk'.pc = "done"
                       /\ walk'.visited = ChainOf(walk.start)
                       /\ IsEocMark(ghost.fat[walk.curr])
                       /\ call'.op = "read_chain"
                       /\ call'.outcome = "ok"]_vars

C4_Witness ==
    /\ walk.pc = "done"
    /\ call.op = "read_chain"
    /\ call.outcome = "ok"
    /\ Len(walk.visited) = MaxCluster - 1
    /\ walk.visited[1] > walk.visited[2]
    /\ cache # <<>>

\* C5: a chain walk that reaches a cluster whose FAT entry marks it bad (low
\* 28 bits 0x0FFFFFF7) returns an I/O error of kind InvalidData: it neither
\* aborts nor returns a byte count.
C5_BadClusterIsInvalidData ==
    (call.op = "read_chain" /\ call.last \in DOMAIN ghost.fat
        /\ IsBadMark(ghost.fat[call.last]))
    => (call.outcome = "err" /\ call.err.kind = "InvalidData")

\* The marks of the FAT specification that the claims name besides links
\* and end marks.
IsFreeMark(raw) == Low28(raw) = 0
IsReservedMark(raw) == Low28(raw) = 1 \/ (Low28(raw) >= 268435440 /\ Low28(raw) <= 268435446)

\* Where the image holds cluster c: the logical sector of its table entry
\* (first copy) and the logical sectors of its bytes.
FatSectorOf(c) == 1 + (c * 4) \div ghost.layout.sector_bytes
ClusterSectors(c) ==
    LET first == 1 + ghost.layout.fat_count * SectorsPerFat(ghost.layout)
                   + (c - 2) * ghost.layout.sectors_per_cluster
    IN first..(first + ghost.layout.sectors_per_cluster - 1)

\* C21: in each turn of the chain walk the FAT entry of the cluster c it
\* stands at is read before c's bytes: on a Free or Reserved entry the walk
\* aborts, having read the entry's sector but none of c's bytes, and returns
\* no count; on Data(n) it reads c and goes on at n; on Eoc it reads c and
\* ends.
C21_EntryBeforeBytes ==
    [][(walk.pc = "loop" /\ walk.curr \in DOMAIN ghost.fat) =>
          LET c == walk.curr
              mark == ghost.fat[c]
          IN /\ FatSectorOf(c) \in DOMAIN cache'
             /\ IF IsFreeMark(mark) \/ IsReservedMark(mark)
                THEN /\ walk'.pc = "aborted"
                     /\ walk'.visited = walk.visited
                     /\ call'.op = "read_chain"
                     /\ call'.outcome = "panic"
                     /\ (DOMAIN cache') \ (DOMAIN cache) \subseteq {FatSectorOf(c)}
                ELSE IF IsLink(mark)
                THEN /\ walk'.pc = "loop"
                     /\ walk'.visited = Append(walk.visited, c)
                     /\ ClusterSectors(c) \subseteq DOMAIN cache'
                     /\ walk'.curr = Low28(mark)
                     /\ call' = None
                ELSE IF IsEocMark(mark)
                THEN /\ walk'.pc = "done"
                     /\ walk'.visited = Append(walk.visited, c)
                     /\ ClusterSectors(c) \subseteq DOMAIN cache'
                     /\ call'.op = "read_chain"
                     /\ call'.outcome = "ok"
                ELSE TRUE]_vars

\* A walk that read one cluster and aborted at the next, a free one, whose
\* entry is cached and whose bytes are not.
C21_Witness ==
    /\ walk.pc = "aborted"
    /\ call.op = "read_chain"
    /\ call.outcome = "panic"
    /\ Len(walk.visited) = 1
    /\ call.last \in DOMAIN ghost.fat
    /\ IsFreeMark(ghost.fat[call.last])
    /\ FatSectorOf(call.last) \in DOMAIN cache
    /\ ClusterSectors(call.last) \cap DOMAIN cache = {}

(***************************************************************************)
(* Strings and paths (std).  A String is the sequence of its characters'   *)
(* code points; the paths and names met here are ASCII, one byte each.     *)
(***************************************************************************)

\* u8::to_ascii_lowercase.
ToAsciiLower(b) == IF b >= 65 /\ b <= 90 THEN b + 32 ELSE b

\* str::eq_ignore_ascii_case.
EqIgnoreAsciiCase(a, b) ==
    /\ Len(a) = Len(b)
    /\ \A i \in 1..Len(a) : ToAsciiLower(a[i]) = ToAsciiLower(b[i])

\* The pieces of a path between its separators '/' (47), empty ones kept.
RECURSIVE SplitPath(_, _)
SplitPath(path, piece) ==
    IF path = <<>> THEN <<piece>>
    ELSE IF Head(path) = 47 THEN <<piece>> \o SplitPath(Tail(path), <<>>)
    ELSE SplitPath(Tail(path), Append(piece, Head(path)))

\* Path::components on a Unix path: RootDir for a leading separator, then
\* the pieces in order; an empty piece (a repeated or trailing separator)
\* yields nothing, "." yields CurDir only as the first piece of a path
\* without root and nothing elsewhere, ".." yields ParentDir.
Components(path) ==
    LET has_root == path # <<>> /\ Head(path) = 47
        pieces == SplitPath(path, <<>>)
        comp(i) ==
            LET piece == pieces[i] IN
            IF piece = <<>> THEN <<>>
            ELSE IF piece = <<46>>
            THEN IF i = 1 /\ ~has_root THEN <<[kind |-> "CurDir", name |-> piece]>>
                 ELSE <<>>
            ELSE IF piece = <<46, 46>> THEN <<[kind |-> "ParentDir", name |-> piece]>>
            ELSE <<[kind |-> "Normal", name |-> piece]>>
    IN (IF has_root THEN <<[kind |-> "RootDir", name |-> <<47>>]>> ELSE <<>>)
          \o Flatten([i \in 1..Len(pieces) |-> comp(i)])

\* String::from_utf8 on bytes below 128 (multi-byte sequences are not
\* decoded): the characters, or no string for a byte that is not ASCII.
FromUtf8(bytes) ==
    [ok |-> \A i \in 1..Len(bytes) : bytes[i] < 128, chars |-> bytes]

\* String::from_utf16: each unit outside the surrogate range is its own
\* character, a high surrogate and the low one after it are one character,
\* another surrogate makes the name invalid.
FromUtf16(units) ==
    LET high(u) == u >= 55296 /\ u <= 56319
        low(u) == u >= 56320 /\ u <= 57343
        ok == \A i \in 1..Len(units) :
                 /\ high(units[i]) => (i < Len(units) /\ low(units[i + 1]))
                 /\ low(units[i]) => (i > 1 /\ high(units[i - 1]))
        starts == SelectSeq([i \in 1..Len(units) |-> i],
                            LAMBDA i : ~low(units[i]))
        char(i) == IF high(units[i])
                   THEN 65536 + (units[i] - 55296) * 1024
                            + (units[i + 1] - 56320)
                   ELSE units[i]
    IN IF ok THEN [ok |-> TRUE, chars |-> [k \in 1..Len(starts) |-> char(starts[k])]]
       ELSE [ok |-> FALSE, chars |-> <<>>]

(***************************************************************************)
(* vfat/dir.rs: the 32-byte directory records.  A record is the sequence   *)
(* of its bytes, byte k of the source's layout at place k + 1.             *)
(***************************************************************************)

\* DirEntry::from: attribs == 0x0f && dtype == 0 && clust_num == 0.
DirEntryFrom(r) ==
    IF r[12] = 15 /\ r[13] = 0 /\ r[27] = 0 /\ r[28] = 0
    THEN "Lfn" ELSE "Regular"

\* VFatRegularDirEntry::seq.
RegularSeq(r) ==
    IF r[1] = 229 THEN "Deleted"
    ELSE IF r[1] = 0 THEN "EndOfDirectory"
    ELSE "Valid"

\* VFatRegularDirEntry::checksum, over name and ext, on u8.
RECURSIVE ChecksumFold(_, _)
ChecksumFold(bytes, sum) ==
    IF bytes = <<>> THEN sum
    ELSE ChecksumFold(Tail(bytes),
                      ((sum % 2) * 128 + (sum \div 2) + Head(bytes)) % 256)

Checksum(r) == ChecksumFold(SubSeq(r, 1, 11), 0)

\* iter().take_while(|x| x != 0 && x != 0x20).
RECURSIVE TakeName(_)
TakeName(bytes) ==
    IF bytes = <<>> \/ Head(bytes) = 0 \/ Head(bytes) = 32 THEN <<>>
    ELSE <<Head(bytes)>> \o TakeName(Tail(bytes))

NoLfn == [tag |-> "None", pos |-> 0, checksum |-> 0, name |-> <<>>]

\* A name(lfn) that takes the long name of any complete group.
RegularNameAnyChecksum(r, lfn) ==
    IF lfn.tag = "End"
    THEN FromUtf16(lfn.name)
    ELSE IF (r[12] \div 16) % 2 = 0
    THEN FromUtf8(TakeName(SubSeq(r, 1, 8)) \o TakeName(<<46>>)
                     \o TakeName(SubSeq(r, 9, 11)))
    ELSE FromUtf8(TakeName(SubSeq(r, 1, 8)))

\* VFatRegularDirEntry::name(lfn): the long name when the group is complete
\* and its checksum is the record's, else the name built of the 8.3 fields.
RegularName(r, lfn) ==
    IF lfn.tag = "End" /\ lfn.checksum = Checksum(r)
    THEN FromUtf16(lfn.name)
    ELSE IF (r[12] \div 16) % 2 = 0
    THEN FromUtf8(TakeName(SubSeq(r, 1, 8)) \o TakeName(<<46>>)
                     \o TakeName(SubSeq(r, 9, 11)))
    ELSE FromUtf8(TakeName(SubSeq(r, 1, 8)))

\* VFatRegularDirEntry::metadata.
RegularMetadata(r) ==
    [attribs |-> r[12], created |-> SubSeq(r, 15, 18),
     accessed |-> SubSeq(r, 19, 20), modified |-> SubSeq(r, 23, 26)]

\* VFatRegularDirEntry::start_cluster: hi_cluster_part << 16 | lo_cluster_part.
RegularStartCluster(r) == ClusterFrom(<<r[27], r[28], r[21], r[22]>>)

\* VFatLfnDirEntry::seq: Seq(sequence_number & 0b11111, first, last).
LfnSeqOf(r) ==
    IF r[1] = 0 THEN [tag |-> "EndOfDirectory", pos |-> 0, first |-> FALSE, last |-> FALSE]
    ELSE IF r[1] = 229 THEN [tag |-> "Deleted", pos |-> 0, first |-> FALSE, last |-> FALSE]
    ELSE [tag |-> "Seq", pos |-> r[1] % 32,
          first |-> (r[1] \div 32) % 2 = 0,
          last |-> (r[1] \div 64) % 2 = 1]

\* The 13 code units of a slot: name_part_1, name_part_2, name_part_3.
LfnUnits(r) ==
    LET unit(k) == r[k] + 256 * r[k + 1] IN
    <<unit(2), unit(4), unit(6), unit(8), unit(10),
      unit(15), unit(17), unit(19), unit(21), unit(23), unit(25),
      unit(29), unit(31)>>

\* VFatLfnDirEntry::extend_name: pushes the units up to the first that is
\* 0x00 or 0xFF.
RECURSIVE TakeUnits(_)
TakeUnits(units) ==
    IF units = <<>> \/ Head(units) = 0 \/ Head(units) = 255 THEN <<>>
    ELSE <<Head(units)>> \o TakeUnits(Tail(units))

ExtendName(r, name) == name \o TakeUnits(LfnUnits(r))

\* LfnEnt::next(seq, lfn).  curr_pos - 1 on u8 overflows for curr_pos = 0
\* (tag "Overflow": the panic of a build with overflow checks).
LfnEntNext(self, seq, r) ==
    LET put(name) ==
            IF seq.pos # 1
            THEN [tag |-> "Pos", pos |-> seq.pos, checksum |-> r[14],
                  name |-> ExtendName(r, name)]
            ELSE [tag |-> "End", pos |-> 0, checksum |-> r[14],
                  name |-> ExtendName(r, name)]
    IN IF seq.last THEN put(<<>>)
       ELSE IF self.tag = "Pos"
       THEN IF self.pos = 0 THEN [self EXCEPT !.tag = "Overflow"]
            ELSE IF self.pos - 1 = seq.pos /\ self.checksum = r[14]
            THEN put(self.name)
            ELSE self
       ELSE self

(***************************************************************************)
(* vfat/dir.rs: the directory stream.  A stream is                         *)
(* [next: Option<Cluster>, curr_iter: Option<IntoIter<record>>]; a step    *)
(* ends with an entry ("some"), with None ("none") or in a panic.          *)
(***************************************************************************)

SomeCluster(c) == [some |-> TRUE, cluster |-> c]
NoCluster == [some |-> FALSE, cluster |-> 0]

\* Dir::entries.
DirEntries(dir) ==
    [next |-> SomeCluster(dir.start_cluster),
     curr_iter |-> [some |-> FALSE, rest |-> <<>>]]

\* VecExt::cast: the buffer as records of 32 bytes.
CastRecords(buf) ==
    [k \in 1..(Len(buf) \div 32) |-> SubSeq(buf, 32 * (k - 1) + 1, 32 * k)]

\* The Entry made of a valid regular record.
EntryOf(r, name) ==
    IF (r[12] \div 16) % 2 # 0
    THEN [kind |-> "Dir", start_cluster |-> RegularStartCluster(r),
          name |-> name, metadata |-> RegularMetadata(r)]
    ELSE [kind |-> "File", start_cluster |-> RegularStartCluster(r),
          name |-> name, metadata |-> RegularMetadata(r),
          size |-> SubSeq(r, 29, 32), pos |-> 0,
          curr |-> RegularStartCluster(r)]

\* One turn of the loop of DirIter::next, from the loop's state s: the next
\* record of curr_iter or, when there is none, the next cluster of the
\* chain.  s.outcome is "run" while the loop goes on.
DirIterTurn(dev, part, g, s) ==
    LET it == s.it
        stop(outcome, entry, it2, c) ==
            [s EXCEPT !.outcome = outcome, !.entry = entry, !.it = it2,
                      !.cache = c]
        go(it2, n, c) == [s EXCEPT !.it = it2, !.lfn_ent = n, !.cache = c]
        named(r, it2, name) ==
            IF ~name.ok THEN stop("panic", None, it2, s.cache)
            ELSE stop("some", EntryOf(r, name.chars), it2, s.cache)
        slot(it2, n) ==
            IF n.tag = "Overflow" THEN stop("panic", None, it2, s.cache)
            ELSE go(it2, n, s.cache)
        lfn(r, it2, seq) ==
            CASE seq.tag = "Deleted" -> go(it2, s.lfn_ent, s.cache)
              [] seq.tag = "EndOfDirectory" -> stop("none", None, it2, s.cache)
              [] OTHER -> slot(it2, LfnEntNext(s.lfn_ent, seq, r))
        regular(r, it2, seq) ==
            CASE seq = "Deleted" -> go(it2, s.lfn_ent, s.cache)
              [] seq = "EndOfDirectory" -> stop("none", None, it2, s.cache)
              [] OTHER -> named(r, it2, RegularName(r, s.lfn_ent))
        record(r, it2) ==
            IF DirEntryFrom(r) = "Regular" THEN regular(r, it2, RegularSeq(r))
            ELSE lfn(r, it2, LfnSeqOf(r))
        refill(next, read, c) ==
            go([next |-> next, curr_iter |-> read], s.lfn_ent, c)
        status(fe, st, read) ==
            IF st.tag = "Data" THEN refill(SomeCluster(st.val), read, fe.cache)
            ELSE IF st.tag = "Eoc" THEN refill(NoCluster, read, fe.cache)
            ELSE stop("panic", None, it, fe.cache)
        fat_entry(fe, read) ==
            IF fe.outcome # "ok" THEN stop("panic", None, it, fe.cache)
            ELSE status(fe, FatEntryStatus(fe.raw), read)
        read_cluster(cluster, size, rc) ==
            IF rc.outcome # "ok" \/ rc.n # size
            THEN stop("panic", None, it, rc.cache)
            ELSE fat_entry(FatEntry(dev, part, rc.cache, g, cluster),
                           [some |-> TRUE, rest |-> CastRecords(rc.buf)])
        cluster(c, size) ==
            read_cluster(c, size,
                         ReadCluster(dev, part, s.cache, g, c, 0, Filler(size)))
    IN IF it.curr_iter.some /\ it.curr_iter.rest # <<>>
       THEN record(Head(it.curr_iter.rest),
                   [it EXCEPT !.curr_iter.rest = Tail(@)])
       ELSE IF it.next.some
       THEN cluster(it.next.cluster, g.bytes_per_sector * g.sectors_per_cluster)
       ELSE stop("panic", None, it, s.cache)

\* The turns of the loop until it returns or panics.
RECURSIVE DirIterRun(_, _, _, _)
DirIterRun(dev, part, g, s) ==
    IF s.outcome # "run" THEN s
    ELSE DirIterRun(dev, part, g, DirIterTurn(dev, part, g, s))

\* DirIter::next, the loop from a given lfn_ent on.
DirIterLoop(dev, part, cch, g, it, lfn_ent) ==
    LET k(s) == [outcome |-> s.outcome, entry |-> s.entry, it |-> s.it,
                 cache |-> s.cache]
    IN k(DirIterRun(dev, part, g,
                    [outcome |-> "run", entry |-> None, it |-> it,
                     lfn_ent |-> lfn_ent, cache |-> cch]))

\* DirIter::next.
DirIterNext(dev, part, cch, g, it) == DirIterLoop(dev, part, cch, g, it, NoLfn)

IoError(kind) == [kind |-> kind, sector |-> 0]

\* Iterator::find over the stream, for Dir::find.
RECURSIVE FindLoop(_, _, _, _, _, _)
FindLoop(dev, part, cch, g, it, name) ==
    LET next(r) ==
            IF r.outcome = "panic"
            THEN [outcome |-> "panic", entry |-> None, err |-> None,
                  cache |-> r.cache]
            ELSE IF r.outcome = "none"
            THEN [outcome |-> "err", entry |-> None, err |-> IoError("NotFound"),
                  cache |-> r.cache]
            ELSE IF EqIgnoreAsciiCase(r.entry.name, name)
            THEN [outcome |-> "ok", entry |-> r.entry, err |-> None,
                  cache |-> r.cache]
            ELSE FindLoop(dev, part, r.cache, g, r.it, name)
    IN next(DirIterNext(dev, part, cch, g, it))

\* Dir::find(name), for a name that is valid UTF-8.
DirFind(dev, part, cch, g, dir, name) ==
    FindLoop(dev, part, cch, g, DirEntries(dir), name)

(***************************************************************************)
(* vfat/vfat.rs: FileSystem::open.                                         *)
(***************************************************************************)

\* VFat::root.
Root(g) ==
    [kind |-> "Dir", start_cluster |-> g.root_dir_cluster, name |-> <<>>,
     metadata |-> [attribs |-> 0, created |-> <<0, 0, 0, 0>>,
                   accessed |-> <<0, 0>>, modified |-> <<0, 0, 0, 0>>]]

\* The loop of open: cwd and the components not yet taken from iter.
RECURSIVE OpenLoop(_, _, _, _, _, _)
OpenLoop(dev, part, cch, g, cwd, rest) ==
    LET fail(kind, c) ==
            [outcome |-> "err", entry |-> None, err |-> IoError(kind), cache |-> c]
        found(f) ==
            IF f.outcome = "panic" THEN f
            ELSE IF f.outcome = "err"
            THEN IF f.err.kind = "NotFound"
                 THEN IF Tail(rest) = <<>> THEN fail("NotFound", f.cache)
                      ELSE fail("InvalidInput", f.cache)
                 ELSE f
            ELSE IF f.entry.kind = "Dir"
            THEN OpenLoop(dev, part, f.cache, g, f.entry, Tail(rest))
            ELSE IF Tail(rest) = <<>> THEN f
            ELSE fail("InvalidInput", f.cache)
    IN IF rest = <<>>
       THEN [outcome |-> "ok", entry |-> cwd, err |-> None, cache |-> cch]
       ELSE IF Head(rest).kind # "Normal" THEN fail("InvalidInput", cch)
       ELSE found(DirFind(dev, part, cch, g, cwd, Head(rest).name))

\* open that takes every component as a name to look up.
OpenLooksUpAll(dev, part, cch, g, path) ==
    LET asName(c) == [c EXCEPT !.kind = "Normal"]
        from(comps) ==
            IF comps = <<>> \/ Head(comps).kind # "RootDir"
            THEN [outcome |-> "err", entry |-> None,
                  err |-> IoError("InvalidInput"), cache |-> cch]
            ELSE OpenLoop(dev, part, cch, g, Root(g),
                          [i \in 1..(Len(comps) - 1) |-> asName(comps[i + 1])])
    IN from(Components(path))

\* FileSystem::open(path).
Open(dev, part, cch, g, path) ==
    LET from(comps) ==
            IF comps = <<>> \/ Head(comps).kind # "RootDir"
            THEN [outcome |-> "err", entry |-> None,
                  err |-> IoError("InvalidInput"), cache |-> cch]
            ELSE OpenLoop(dev, part, cch, g, Root(g), Tail(comps))
    IN from(Components(path))

(***************************************************************************)
(* Volumes with directories.  A volume names its directories and files by  *)
(* their cluster chains and each directory by its items in on-disk order:  *)
(* an entry (8.3 fields, long name if any, first cluster), a deleted       *)
(* record or an end marker.  Sectors hold 32 bytes, one record; the        *)
(* records of a directory fill the clusters of its chain, zeroes after     *)
(* them.                                                                   *)
(***************************************************************************)

Pad(bytes, n) == bytes \o [i \in 1..(n - Len(bytes)) |-> 32]

\* A regular record: name, ext, attribs, reserved, creation_decisecs,
\* created, accessed, hi_cluster_part, modified, lo_cluster_part, size.
RegularRecord(name, ext, attribs, cluster, size) ==
    Pad(name, 8) \o Pad(ext, 3) \o <<attribs, 0, 7>> \o <<33, 8, 66, 80>>
        \o <<67, 80>> \o <<0, 0>> \o <<34, 9, 68, 80>> \o <<cluster, 0>>
        \o <<size, 0, 0, 0>>

\* A long-name slot: sequence_number, name_part_1, attribs, dtype, checksum,
\* name_part_2, reserved, name_part_3; the name ends with 0x0000 and the
\* units after that are 0xFFFF.
LfnRecord(seqno, chars, checksum) ==
    LET unit(k) == IF k <= Len(chars) THEN <<chars[k], 0>>
                   ELSE IF k = Len(chars) + 1 THEN <<0, 0>>
                   ELSE <<255, 255>>
    IN <<seqno>> \o Flatten([k \in 1..5 |-> unit(k)]) \o <<15, 0, checksum>>
          \o Flatten([k \in 1..6 |-> unit(k + 5)]) \o <<0, 0>>
          \o Flatten([k \in 1..2 |-> unit(k + 11)])

DirItem(name, cluster) ==
    [kind |-> "dir", name |-> name, ext |-> <<>>, long |-> <<>>,
     cluster |-> cluster, size |-> 0]
FileItem(name, ext, cluster, size) ==
    [kind |-> "file", name |-> name, ext |-> ext, long |-> <<>>,
     cluster |-> cluster, size |-> size]
Deleted(item) == [item EXCEPT !.kind = "deleted"]
Long(item, chars) == [item EXCEPT !.long = chars]
EndItem ==
    [kind |-> "end", name |-> <<>>, ext |-> <<>>, long |-> <<>>,
     cluster |-> 0, size |-> 0]

\* The records of an item: the slot of its long name, if it has one, and
\* its regular record; an item of kind "records" stands for the records it
\* lists.
ItemRecords(item) ==
    IF item.kind = "records" THEN item.records
    ELSE IF item.kind = "end" THEN <<[i \in 1..32 |-> 0]>>
    ELSE LET attribs == IF item.kind = "dir" THEN 16 ELSE 32
             reg == RegularRecord(item.name, item.ext, attribs, item.cluster,
                                  item.size)
         IN IF item.kind = "deleted" THEN <<[reg EXCEPT ![1] = 229]>>
            ELSE IF item.long = <<>> THEN <<reg>>
            ELSE <<LfnRecord(65, item.long, Checksum(reg)), reg>>

Volumes ==
    { [sectors_per_cluster |-> 1, device_bytes |-> 32, start |-> 0, last |-> 7,
       dirs |-> { [chain |-> <<2, 3, 4>>,
                   items |-> << DirItem(<<65>>, 5), FileItem(<<65>>, <<>>, 7, 5),
                                EndItem >>],
                  [chain |-> <<5, 6>>,
                   items |-> << Deleted(FileItem(<<65, 65>>, <<>>, 7, 5)),
                                FileItem(<<65>>, <<>>, 7, 5) >>] },
       files |-> {<<7>>}],
      [sectors_per_cluster |-> 2, device_bytes |-> 16, start |-> 1, last |-> 5,
       dirs |-> { [chain |-> <<2>>,
                   items |-> << DirItem(<<65>>, 3),
                                FileItem(<<65>>, <<65>>, 5, 40) >>],
                  [chain |-> <<3>>,
                   items |-> << DirItem(<<65, 65>>, 4), EndItem >>],
                  [chain |-> <<4>>,
                   items |-> << EndItem, FileItem(<<65>>, <<>>, 5, 40) >>] },
       files |-> {<<5>>}],
      [sectors_per_cluster |-> 2, device_bytes |-> 32, start |-> 0, last |-> 6,
       dirs |-> { [chain |-> <<2, 3>>,
                   items |-> << Long(DirItem(<<65>>, 4), <<97, 97>>),
                                FileItem(<<65>>, <<>>, 5, 70), EndItem >>],
                  [chain |-> <<4>>,
                   items |-> << FileItem(<<65>>, <<65>>, 5, 70), EndItem >>] },
       files |-> {<<5, 6>>}] }

Chains(vol) == {d.chain : d \in vol.dirs} \cup vol.files

\* The file allocation table of a volume: its chains, each ended by Eoc.
VolumeFat(vol) ==
    [c \in 2..vol.last |->
        IF \E ch \in Chains(vol) : c \in Range(ch)
        THEN LET ch == CHOOSE x \in Chains(vol) : c \in Range(x)
                 i == CHOOSE k \in 1..Len(ch) : ch[k] = c
             IN IF i < Len(ch) THEN Link(ch[i + 1]) ELSE Eoc
        ELSE FreeMark]

\* The bytes of data cluster c of a volume.
VolumeCluster(vol, c) ==
    LET size == 32 * vol.sectors_per_cluster IN
    IF \E d \in vol.dirs : c \in Range(d.chain)
    THEN LET d == CHOOSE x \in vol.dirs : c \in Range(x.chain)
             i == CHOOSE k \in 1..Len(d.chain) : d.chain[k] = c
             bytes == Flatten(Flatten([k \in 1..Len(d.items) |->
                                          ItemRecords(d.items[k])]))
         IN [j \in 1..size |->
                IF (i - 1) * size + j <= Len(bytes)
                THEN bytes[(i - 1) * size + j] ELSE 0]
    ELSE [j \in 1..size |-> DataByte(c, j - 1, size)]

VolumeSectors(vol) == 2 + (vol.last - 1) * vol.sectors_per_cluster

VolumeBpb(vol) ==
    [sector_bytes |-> 32,
     sectors_per_cluster |-> vol.sectors_per_cluster,
     reserved_sectors |-> 1,
     fat_count |-> 1,
     sectors_per_fat |-> 1,
     logical_sectors_small |-> 0,
     logical_sectors_large |-> VolumeSectors(vol),
     root_start_cluster |-> <<2, 0, 0, 0>>]

\* The bytes of logical sector l: the reserved sector, the table, the data.
VolumeSector(vol, l) ==
    IF l < 1 THEN [j \in 1..32 |-> 0]
    ELSE IF l < 2
    THEN Flatten([k \in 1..8 |-> TableEntry(VolumeFat(vol), k - 1)])
    ELSE LET c == 2 + (l - 2) \div vol.sectors_per_cluster
             k == (l - 2) % vol.sectors_per_cluster
         IN SubSeq(VolumeCluster(vol, c), 32 * k + 1, 32 * (k + 1))

VolumeDevice(vol) ==
    LET factor == 32 \div vol.device_bytes IN
    [sector_size |-> vol.device_bytes,
     data |-> [p \in 0..(vol.start + VolumeSectors(vol) * factor - 1) |->
                 IF p < vol.start THEN [i \in 1..vol.device_bytes |-> 0]
                 ELSE LET l == (p - vol.start) \div factor
                          k == (p - vol.start) % factor
                      IN SubSeq(VolumeSector(vol, l),
                                k * vol.device_bytes + 1, (k + 1) * vol.device_bytes)],
     failing |-> {}]

(***************************************************************************)
(* The path resolver on a mounted volume: open is called with any path of  *)
(* at most MaxPathLen characters out of '/', '.' and 'a', and the caller   *)
(* drops what open returned before the next call.  A panic ends the        *)
(* program.                                                                *)
(***************************************************************************)

MaxPathLen == 6

PathChars == {47, 46, 97}

Paths == UNION {[1..n -> PathChars] : n \in 0..MaxPathLen}

OpenInit ==
    /\ \E vol \in Volumes :
          /\ device = VolumeDevice(vol)
          /\ partition = [start |-> vol.start, sector_size |-> 32]
          /\ geom = VFatFrom(VolumeBpb(vol))
          /\ ghost = [volume |-> vol]
    /\ cache = <<>>
    /\ call = None
    /\ walk = Idle

CallOpen ==
    /\ call.op = "none"
    /\ \E path \in Paths :
          LET returns(r) ==
                  /\ call' = [op |-> "open", path |-> path, outcome |-> r.outcome,
                              entry |-> r.entry, err |-> r.err]
                  /\ cache' = r.cache
          IN returns(Open(device, partition, cache, geom, path))
    /\ UNCHANGED <<device, partition, geom, walk, ghost>>

\* The caller is done with the Entry or the error of the last open.
DropResult ==
    /\ call.op = "open"
    /\ call.outcome # "panic"
    /\ call' = None
    /\ UNCHANGED <<device, partition, cache, geom, walk, ghost>>

OpenNext == CallOpen \/ DropResult

SpecOpen == OpenInit /\ [][OpenNext]_vars

(***************************************************************************)
(* What a path names on the volume, by the volume's items: the directory   *)
(* of a chain lists its items before the first end marker that are not     *)
(* deleted, each under its long name if it has one and else under the name *)
(* of its 8.3 fields.                                                      *)
(***************************************************************************)

HasRoot(path) == path # <<>> /\ Head(path) = 47

Pieces(path) == SplitPath(path, <<>>)

\* The pieces of a path that name something: not empty and not ".".
Names(path) == SelectSeq(Pieces(path), LAMBDA x : x # <<>> /\ x # <<46>>)

RECURSIVE Listed(_)
Listed(items) ==
    IF items = <<>> \/ Head(items).kind = "end" THEN <<>>
    ELSE IF Head(items).kind = "deleted" THEN Listed(Tail(items))
    ELSE <<Head(items)>> \o Listed(Tail(items))

ItemName(item) ==
    IF item.long # <<>> THEN item.long
    ELSE LET recs == ItemRecords(item) IN RegularName(recs[Len(recs)], NoLfn).chars

\* The first listed item of the directory at cluster c whose name is `name`
\* but for the case of ASCII letters; <<>> if there is none.
Lookup(vol, c, name) ==
    LET d == CHOOSE x \in vol.dirs : Head(x.chain) = c
        items == Listed(d.items)
        hits == {i \in 1..Len(items) : EqIgnoreAsciiCase(ItemName(items[i]), name)}
    IN IF hits = {} THEN <<>>
       ELSE <<items[CHOOSE i \in hits : \A j \in hits : i <= j]>>

Found(kind, start, name) ==
    [outcome |-> "ok", kind |-> kind, start_cluster |-> start, name |-> name]
Failed(kind) ==
    [outcome |-> "err", kind |-> kind, start_cluster |-> 0, name |-> <<>>]

Aborted ==
    [outcome |-> "panic", kind |-> "", start_cluster |-> 0, name |-> <<>>]

\* The directory at cluster c has no end marker: its records fill the
\* clusters of its chain and none of them is one.
IsFull(vol, c) ==
    LET d == CHOOSE x \in vol.dirs : Head(x.chain) = c IN
    /\ \A i \in DOMAIN d.items : d.items[i].kind # "end"
    /\ Len(Flatten([k \in 1..Len(d.items) |-> ItemRecords(d.items[k])])) =
          Len(d.chain) * vol.sectors_per_cluster

\* Left-to-right resolution of names from the directory `cwd` on.  With
\* `runs_off` the search for a name that a directory without end marker
\* does not list is Aborted; without it the search ends as in any directory.
RECURSIVE Resolve(_, _, _, _)
Resolve(vol, cwd, names, runs_off) ==
    IF names = <<>> THEN cwd
    ELSE LET hit == Lookup(vol, cwd.start_cluster, Head(names)) IN
         IF hit = <<>>
         THEN IF runs_off /\ IsFull(vol, cwd.start_cluster) THEN Aborted
              ELSE IF Len(names) = 1 THEN Failed("NotFound")
              ELSE Failed("InvalidInput")
         ELSE IF hit[1].kind = "dir"
         THEN Resolve(vol, Found("Dir", hit[1].cluster, ItemName(hit[1])),
                      Tail(names), runs_off)
         ELSE IF Len(names) = 1
         THEN Found("File", hit[1].cluster, ItemName(hit[1]))
         ELSE Failed("InvalidInput")

\* What the last open returned, in the same terms.
Returned ==
    IF call.outcome = "ok"
    THEN Found(call.entry.kind, call.entry.start_cluster, call.entry.name)
    ELSE IF call.outcome = "err" THEN Failed(call.err.kind)
    ELSE Aborted

Named(path) == Resolve(ghost.volume, Found("Dir", 2, <<>>), Names(path), FALSE)

NamedOrAborted(path) ==
    Resolve(ghost.volume, Found("Dir", 2, <<>>), Names(path), TRUE)

IsOpen == call.op = "open"

\* C9, as stated: open returns InvalidInput for a path that does not begin
\* with the root separator (the empty path too), and for an absolute path
\* any of whose components is "." or "..", wherever it occurs.
C9_OpenRejectsNonNormal ==
    IsOpen =>
        /\ ~HasRoot(call.path) => Returned = Failed("InvalidInput")
        /\ HasRoot(call.path)
              /\ (\E i \in DOMAIN Pieces(call.path) :
                     Pieces(call.path)[i] \in {<<46>>, <<46, 46>>})
              => Returned = Failed("InvalidInput")

\* C9, amended: open returns InvalidInput for a path that does not begin
\* with the root separator (the empty path too).  For an absolute path with
\* a ".." component, wherever it occurs, open never succeeds and every error
\* it returns is InvalidInput.  A "." component of an absolute path is no
\* error: it is dropped, as an empty component is, and open returns what it
\* returns for the path without it ("/." is the root Dir): what the path
\* names, or a panic where the search for a name runs off a directory
\* without end marker.
C9_OpenRejectsParentDir ==
    IsOpen =>
        /\ ~HasRoot(call.path) => Returned = Failed("InvalidInput")
        /\ HasRoot(call.path)
              /\ (\E i \in DOMAIN Pieces(call.path) :
                     Pieces(call.path)[i] = <<46, 46>>)
              => /\ call.outcome # "ok"
                 /\ call.outcome = "err" => Returned = Failed("InvalidInput")
        /\ HasRoot(call.path)
              /\ (\A i \in DOMAIN Pieces(call.path) :
                     Pieces(call.path)[i] # <<46, 46>>)
              /\ (\E i \in DOMAIN Pieces(call.path) :
                     Pieces(call.path)[i] = <<46>>)
              => Returned = NamedOrAborted(call.path)

\* A ".." met after a directory was looked up and entered.
C9_Witness ==
    /\ IsOpen
    /\ Len(call.path) >= 5
    /\ SubSeq(call.path, Len(call.path) - 2, Len(call.path)) = <<47, 46, 46>>
    /\ Named(SubSeq(call.path, 1, Len(call.path) - 3)).outcome = "ok"
    /\ Named(SubSeq(call.path, 1, Len(call.path) - 3)).kind = "Dir"
    /\ Returned = Failed("InvalidInput")
    /\ cache # <<>>

\* C10, as stated: for an absolute path of normal components open resolves
\* the components left to right from the root directory (start cluster
\* root_dir_cluster, empty name): "/" is the root Dir; a component absent
\* from the current directory gives NotFound if it is the last one and
\* InvalidInput otherwise; a File matched before the last component gives
\* InvalidInput; otherwise the result is the terminal Dir, or the terminal
\* File when the File is the last component.
C10_OpenResolves ==
    IsOpen /\ HasRoot(call.path)
       /\ (\A i \in DOMAIN Pieces(call.path) :
              Pieces(call.path)[i] \notin {<<46>>, <<46, 46>>})
       => Returned = Named(call.path)

\* Resolution as the code has it: open returns what the path names, but
\* panics where the search for a name runs off a directory without end
\* marker.
OpenResolvesOrAborts ==
    IsOpen /\ HasRoot(call.path)
       /\ (\A i \in DOMAIN Pieces(call.path) :
              Pieces(call.path)[i] \notin {<<46>>, <<46, 46>>})
       => Returned = NamedOrAborted(call.path)

(***************************************************************************)
(* Directories record by record.  A listing is the sequence of the 32-byte *)
(* records of the root directory; its volume holds them in the clusters    *)
(* 2, 3, ... of one chain, zeroes after the last record.  A listing whose  *)
(* records fill the clusters exactly has no end marker unless it lists     *)
(* one.                                                                    *)
(***************************************************************************)

EndRecord == [i \in 1..32 |-> 0]

\* Files "A.A" and "B.B", directory "D", a file whose name field starts
\* with the byte 0x90, file "C" with a blank extension; the cluster field
\* tells the records apart.
FileA == RegularRecord(<<65>>, <<65>>, 32, 3, 1)
FileB == RegularRecord(<<66>>, <<66>>, 32, 4, 2)
DirD == RegularRecord(<<68>>, <<>>, 16, 5, 0)
FileHigh == RegularRecord(<<144>>, <<65>>, 32, 6, 3)
FileBlank == RegularRecord(<<67>>, <<>>, 32, 7, 4)

\* File "E F.G\0H" (a space within the name field, a zero byte within the
\* extension) and file "I" whose extension field is " J ".
FileGap == RegularRecord(<<69, 32, 70>>, <<71, 0, 72>>, 32, 8, 5)
FileLateExt == RegularRecord(<<73>>, <<32, 74>>, 32, 9, 6)

DeletedRecord(r) == [r EXCEPT ![1] = 229]

\* A record of the long-name shape whose sequence byte is 0.
ZeroSlot == [LfnRecord(1, <<122>>, 0) EXCEPT ![1] = 0]

MaxSlots == 4

\* The slots of a long name in on-disk order n, ..., 1: slot i holds the
\* units 13(i-1)+1..13i and the first on disk carries 0x40.  Slot `bad`
\* (none for 0) bears another checksum.
LfnGroup(chars, n, checksum, bad) ==
    [j \in 1..n |->
        LET i == n + 1 - j IN
        LfnRecord(IF i = n THEN i + 64 ELSE i,
                  SubSeq(chars, 13 * (i - 1) + 1, Min(13 * i, Len(chars))),
                  IF i = bad THEN (checksum + 1) % 256 ELSE checksum)]

LongName(len) == [k \in 1..len |-> 97 + (k % 26)]

\* Long names of n slots: one unit in the last slot, or all 13.
GroupListings ==
    { LfnGroup(LongName(len), n, Checksum(FileA), bad) \o <<FileA, EndRecord>> :
        <<n, len, bad>> \in
            { <<n, 13 * (n - 1) + k, bad>> :
                <<n, k, bad>> \in { t \in (1..MaxSlots) \X {1, 13} \X (0..MaxSlots) :
                                      t[3] <= t[1] } } }

Listings ==
    GroupListings \cup
    { <<FileA, FileB, EndRecord>>,
      <<DeletedRecord(FileA), EndRecord>>,
      <<FileA, DeletedRecord(FileB), DirD, EndRecord, FileB>>,
      <<FileA, FileB>>,
      <<DirD, FileA, FileB>>,
      <<EndRecord>>,
      <<FileA, ZeroSlot, FileB, EndRecord>>,
      <<FileA, DeletedRecord(LfnRecord(65, <<122>>, 0)), FileB, EndRecord>>,
      <<FileHigh, FileA, EndRecord>>,
      \* "a.a" is the long name of B.B, ahead of A.A
      LfnGroup(<<97, 46, 97>>, 1, Checksum(FileB), 0) \o <<FileB, FileA, EndRecord>>,
      \* the group of A.A ahead of B.B: a short-name byte was changed
      LfnGroup(LongName(14), 2, Checksum(FileA), 0) \o <<FileB, EndRecord>>,
      \* a complete group, then a group with an altered slot
      LfnGroup(<<122>>, 1, Checksum(FileA), 0)
          \o LfnGroup(LongName(14), 2, Checksum(FileA), 1) \o <<FileA, EndRecord>>,
      \* altered slots ahead of a directory and of a file without extension
      LfnGroup(LongName(13), 1, Checksum(DirD), 1) \o <<DirD, EndRecord>>,
      LfnGroup(LongName(14), 2, Checksum(FileBlank), 2)
          \o <<FileBlank, EndRecord>>,
      \* a long name holding the unit 0x00FF
      LfnGroup(<<97, 255, 98>>, 1, Checksum(FileA), 0) \o <<FileA, EndRecord>>,
      \* a deleted record between the group of A.A and A.A
      LfnGroup(<<122>>, 1, Checksum(FileA), 0)
          \o <<DeletedRecord(FileB), FileA, EndRecord>>,
      \* a slot of another index, or of another checksum, within a group
      <<LfnRecord(67, LongName(1), Checksum(FileA)),
        LfnRecord(1, <<120>>, Checksum(FileA)),
        LfnRecord(2, LongName(13), Checksum(FileA)),
        LfnRecord(1, LongName(13), Checksum(FileA)), FileA, EndRecord>>,
      <<LfnRecord(66, LongName(1), Checksum(FileA)),
        LfnRecord(1, <<120>>, (Checksum(FileA) + 1) % 256),
        LfnRecord(1, LongName(13), Checksum(FileA)), FileA, EndRecord>>,
      \* a deleted slot, or a slot of sequence 0, between a group and its record
      LfnGroup(<<122>>, 1, Checksum(FileA), 0)
          \o <<DeletedRecord(LfnRecord(65, <<121>>, 0)), FileA, EndRecord>>,
      LfnGroup(<<122>>, 1, Checksum(FileA), 0) \o <<ZeroSlot, FileA, EndRecord>>,
      \* short names
      <<FileBlank, FileGap, DirD, FileLateExt, EndRecord>> }

\* The volume of a listing: one directory, its chain as long as the records
\* need.
ListingVolume(records, spc) ==
    LET clusters == (Len(records) + spc - 1) \div spc IN
    [sectors_per_cluster |-> spc, device_bytes |-> 32, start |-> 0,
     last |-> 1 + clusters,
     dirs |-> { [chain |-> [k \in 1..clusters |-> 1 + k],
                 items |-> <<[kind |-> "records", records |-> records]>>] },
     files |-> {}]

ListingVolumes ==
    { ListingVolume(recs, spc) :
        <<recs, spc>> \in { t \in Listings \X {1, 2} : Len(t[1]) <= 6 * t[2] } }

\* The records of the directory as the chain holds them, fill included.
OnDisk(vol) ==
    LET d == CHOOSE x \in vol.dirs : TRUE
    IN CastRecords(Flatten([k \in 1..Len(d.chain) |->
                               VolumeCluster(vol, d.chain[k])]))

(***************************************************************************)
(* The directory API on the root directory: entries() opens a stream,      *)
(* next() is called on it up to MaxNexts times, find(name) is called with  *)
(* the names of FindNames while no stream is open.  A panic ends the       *)
(* program.                                                                *)
(***************************************************************************)

MaxNexts == 5

\* "A.A", "a.a", "a.A", "B.B", "b.b", "D", "d", "x"
FindNames ==
    { <<65, 46, 65>>, <<97, 46, 97>>, <<97, 46, 65>>, <<66, 46, 66>>,
      <<98, 46, 98>>, <<68>>, <<100>>, <<120>> }

DirInit ==
    /\ \E vol \in ListingVolumes :
          /\ device = VolumeDevice(vol)
          /\ partition = [start |-> vol.start, sector_size |-> 32]
          /\ geom = VFatFrom(VolumeBpb(vol))
          /\ ghost = [volume |-> vol, records |-> OnDisk(vol)]
    /\ cache = <<>>
    /\ call = None
    /\ walk = Idle

\* let it = root.entries()
CallEntries ==
    /\ walk.pc = "idle"
    /\ call.op = "none"
    /\ walk' = [pc |-> "stream", it |-> DirEntries(Root(geom)),
                yielded |-> <<>>, calls |-> 0, last |-> "start", upto |-> -1]
    /\ UNCHANGED <<device, partition, cache, geom, call, ghost>>

\* it.next(); upto keeps how many entries had been yielded when next first
\* returned None.
CallNext ==
    /\ walk.pc = "stream"
    /\ walk.calls < MaxNexts
    /\ walk.last # "panic"
    /\ LET returns(r) ==
               /\ walk' = [walk EXCEPT
                             !.it = r.it,
                             !.yielded = IF r.outcome = "some"
                                         THEN Append(@, r.entry) ELSE @,
                             !.calls = @ + 1,
                             !.last = r.outcome,
                             !.upto = IF r.outcome = "none" /\ @ = -1
                                      THEN Len(walk.yielded) ELSE @]
               /\ call' = [op |-> "next", outcome |-> r.outcome,
                           entry |-> r.entry, before |-> walk.last]
               /\ cache' = r.cache
       IN returns(DirIterNext(device, partition, cache, geom, walk.it))
    /\ UNCHANGED <<device, partition, geom, ghost>>

\* root.find(name)
CallFind ==
    /\ walk.pc = "idle"
    /\ call.op = "none"
    /\ \E name \in FindNames :
          LET returns(r) ==
                  /\ call' = [op |-> "find", name |-> name, outcome |-> r.outcome,
                              entry |-> r.entry, err |-> r.err]
                  /\ cache' = r.cache
          IN returns(DirFind(device, partition, cache, geom, Root(geom), name))
    /\ UNCHANGED <<device, partition, geom, walk, ghost>>

\* The caller is done with what find returned.
DropFound ==
    /\ call.op = "find"
    /\ call.outcome # "panic"
    /\ call' = None
    /\ UNCHANGED <<device, partition, cache, geom, walk, ghost>>

DirNext == CallEntries \/ CallNext \/ CallFind \/ DropFound

SpecDir == DirInit /\ [][DirNext]_vars

\* The regular records of the directory that are neither deleted nor behind
\* the first end marker, by their places in on-disk order.
IsEndMarker(r) == DirEntryFrom(r) = "Regular" /\ r[1] = 0

HasEndMarker(recs) == \E k \in 1..Len(recs) : IsEndMarker(recs[k])

Live(recs) ==
    LET end == IF HasEndMarker(recs)
               THEN CHOOSE k \in 1..Len(recs) :
                       /\ IsEndMarker(recs[k])
                       /\ \A j \in 1..(k - 1) : ~IsEndMarker(recs[j])
               ELSE Len(recs) + 1
    IN SelectSeq([k \in 1..(end - 1) |-> k],
                 LAMBDA k : DirEntryFrom(recs[k]) = "Regular" /\ recs[k][1] # 229)

\* An entry is the entry of record r, whatever its name.
EntryFor(e, r) == [e EXCEPT !.name = <<>>] = EntryOf(r, <<>>)

Fold(name) == [i \in 1..Len(name) |-> ToAsciiLower(name[i])]

\* The entries a fresh stream of the root directory yields until it ends.
RECURSIVE Collect(_, _, _)
Collect(it, cch, fuel) ==
    LET k(r) == IF r.outcome = "some" /\ fuel > 0
                THEN <<r.entry>> \o Collect(r.it, r.cache, fuel - 1)
                ELSE <<>>
    IN k(DirIterNext(device, partition, cch, geom, it))

Enumeration == Collect(DirEntries(Root(geom)), cache, Len(ghost.records))

Matches(name) ==
    { i \in 1..Len(Enumeration) : Fold(Enumeration[i].name) = Fold(name) }

FirstMatch(name) ==
    Enumeration[CHOOSE i \in Matches(name) : \A j \in Matches(name) : i <= j]

\* C11: find(name) returns the first of the directory's entries, in the
\* order entries() yields them, whose name is name up to the case of ASCII
\* letters (so names that differ in case only give the same entry), and it
\* returns NotFound when the directory has no entry of that name.
C11_FindFirstMatch ==
    (call.op = "find") =>
        IF Matches(call.name) = {}
        THEN call.outcome = "err" /\ call.err.kind = "NotFound"
        ELSE call.outcome = "ok" /\ call.entry = FirstMatch(call.name)

\* The same, but for the directories whose chain ends before any end
\* marker and the names that cannot be rendered: there the search aborts
\* once it has passed every entry.
FindFirstMatchOrAborts ==
    (call.op = "find") =>
        IF Matches(call.name) = {}
        THEN \/ call.outcome = "err" /\ call.err.kind = "NotFound"
             \/ /\ call.outcome = "panic"
                /\ \/ ~HasEndMarker(ghost.records)
                   \/ \E k \in 1..Len(ghost.records) :
                         ghost.records[k][1] >= 128 /\ ghost.records[k][1] # 229
        ELSE call.outcome = "ok" /\ call.entry = FirstMatch(call.name)

\* The entries yielded so far are those of the first n live records, in
\* on-disk order.
YieldedAre(n) ==
    /\ Len(walk.yielded) >= n
    /\ n <= Len(Live(ghost.records))
    /\ \A i \in 1..n :
          EntryFor(walk.yielded[i], ghost.records[Live(ghost.records)[i]])

\* C12: on a directory with an end marker entries() yields one Entry for
\* each regular record ahead of the first end marker that is not deleted,
\* in on-disk order and once each, nothing for deleted records and
\* long-name slots, and then ends without an error.
C12_EntriesYieldLiveRecords ==
    (walk.pc = "stream" /\ HasEndMarker(ghost.records)) =>
        IF walk.upto = -1
        THEN /\ walk.last # "panic"
             /\ YieldedAre(Len(walk.yielded))
        ELSE /\ walk.upto = Len(Live(ghost.records))
             /\ YieldedAre(walk.upto)

\* A record of the long-name shape with sequence byte 0, or a short name
\* with a byte that is no ASCII character, ahead of the end marker.
HasZeroSlot(recs) ==
    \E k \in 1..Len(recs) :
        /\ DirEntryFrom(recs[k]) = "Lfn" /\ recs[k][1] = 0
        /\ \A j \in 1..k : ~IsEndMarker(recs[j])

HasHighName(recs) ==
    \E i \in 1..Len(Live(recs)) :
        \E b \in 1..11 : recs[Live(recs)[i]][b] >= 128

\* The same on the directories without such records.
EntriesYieldLiveRecordsElse ==
    (HasZeroSlot(ghost.records) \/ HasHighName(ghost.records))
        \/ C12_EntriesYieldLiveRecords

\* Record p is preceded by slots of the indices n, ..., 1 in that order,
\* the first of them carrying 0x40.
SlotsBefore(recs, p, n) ==
    /\ p > n
    /\ \A i \in 1..n :
          /\ DirEntryFrom(recs[p - i]) = "Lfn"
          /\ recs[p - i][1] = IF i = n THEN i + 64 ELSE i

AllBear(recs, p, n) == \A i \in 1..n : recs[p - i][14] = Checksum(recs[p])

\* The units of the slots, those of slot i at offset 13(i - 1), up to the
\* name's end: the first unit 0x0000 (0xFFFF fills the slot after it).
GroupUnits(recs, p, n) == Flatten([i \in 1..n |-> LfnUnits(recs[p - i])])

Truncated(units) ==
    LET ends == { k \in 1..Len(units) : units[k] = 0 \/ units[k] = 65535 }
    IN IF ends = {} THEN units
       ELSE SubSeq(units, 1, (CHOOSE k \in ends : \A j \in ends : k <= j) - 1)

IsValid(r) == DirEntryFrom(r) = "Regular" /\ r[1] # 0 /\ r[1] # 229

\* Entry j of the stream was made of record p.
YieldedOf(j, p) ==
    /\ walk.pc = "stream"
    /\ j \in 1..Len(walk.yielded)
    /\ p \in 1..Len(ghost.records)
    /\ IsValid(ghost.records[p])
    /\ EntryFor(walk.yielded[j], ghost.records[p])

Places == (1..(2 * MaxNexts)) \X (1..(3 * MaxSlots))

\* C13: a valid regular record with checksum C that comes right after slots
\* of the indices N, ..., 1 (the first carrying 0x40), all bearing C, is
\* emitted under the long name: the units of the slots, those of slot i at
\* offset 13(i - 1), for every N >= 1.
C13_LongNameRoundTrip ==
    \A <<j, p>> \in Places :
        YieldedOf(j, p) =>
            \A n \in 1..(p - 1) :
                (SlotsBefore(ghost.records, p, n) /\ AllBear(ghost.records, p, n))
                    => walk.yielded[j].name
                          = Truncated(GroupUnits(ghost.records, p, n))

\* The same for the names of one slot without the unit 0x00FF.
OneSlotNameRoundTrip ==
    \A <<j, p>> \in Places :
        (/\ YieldedOf(j, p)
         /\ SlotsBefore(ghost.records, p, 1)
         /\ AllBear(ghost.records, p, 1)
         /\ 255 \notin Range(Truncated(GroupUnits(ghost.records, p, 1))))
            => walk.yielded[j].name
                  = Truncated(GroupUnits(ghost.records, p, 1))

\* The name next() gives to a complete group of several slots: the pieces
\* of the slots in on-disk order, that of slot N first.
OnDiskOrderName ==
    \A <<j, p>> \in Places :
        YieldedOf(j, p) =>
            \A n \in 1..(p - 1) :
                (/\ SlotsBefore(ghost.records, p, n)
                 /\ AllBear(ghost.records, p, n)
                 /\ 255 \notin Range(GroupUnits(ghost.records, p, n)))
                    => walk.yielded[j].name
                          = Flatten([i \in 1..n |->
                                Truncated(LfnUnits(ghost.records[p - (n + 1 - i)]))])

\* The 8.3 name of a record: the name field up to its first 0x00 or 0x20
\* and, for a file, '.' and the extension cut the same way; the '.' of a
\* file with a blank extension is left open here.
ShortNames(r) ==
    LET base == TakeName(SubSeq(r, 1, 8))
        ext == TakeName(SubSeq(r, 9, 11))
    IN IF (r[12] \div 16) % 2 # 0 THEN {base}
       ELSE IF ext = <<>> THEN {base, base \o <<46>>}
       ELSE {base \o <<46>> \o ext}

IsDeleted(r) == DirEntryFrom(r) = "Regular" /\ r[1] = 229

\* C23: a deleted regular record discards the long name in progress: the
\* valid regular record that follows it is emitted under its 8.3 name, also
\* when a group bearing that record's checksum precedes the deleted record.
C23_DeletedDiscardsLongName ==
    \A <<j, p>> \in Places :
        (YieldedOf(j, p) /\ p > 1 /\ IsDeleted(ghost.records[p - 1]))
            => walk.yielded[j].name \in ShortNames(ghost.records[p])

\* What next() does: the group ahead of the deleted record names the
\* record behind it.
DeletedKeepsLongName ==
    \A <<j, p>> \in Places :
        (/\ YieldedOf(j, p)
         /\ p > 2
         /\ IsDeleted(ghost.records[p - 1])
         /\ SlotsBefore(ghost.records, p - 1, 1)
         /\ ghost.records[p - 2][14] = Checksum(ghost.records[p]))
            => walk.yielded[j].name
                  = Truncated(LfnUnits(ghost.records[p - 2]))

\* A long-name slot in use, its index and whether it starts a group.
IsSlot(r) == DirEntryFrom(r) = "Lfn" /\ r[1] # 0 /\ r[1] # 229
SlotIndex(r) == r[1] % 32
StartsGroup(r) == IsSlot(r) /\ (r[1] \div 64) % 2 = 1

\* The group that starts at place k runs as it should up to place m - 1
\* and is not complete there; the slot at place m, which starts no group,
\* is not the one expected: another index or another checksum.
BrokenAt(recs, k, m) ==
    /\ StartsGroup(recs[k])
    /\ \A i \in (k + 1)..(m - 1) :
          /\ IsSlot(recs[i])
          /\ ~StartsGroup(recs[i])
          /\ SlotIndex(recs[i]) = SlotIndex(recs[k]) - (i - k)
          /\ recs[i][14] = recs[k][14]
    /\ SlotIndex(recs[k]) - (m - 1 - k) > 1
    /\ IsSlot(recs[m])
    /\ ~StartsGroup(recs[m])
    /\ \/ SlotIndex(recs[m]) # SlotIndex(recs[k]) - (m - k)
       \/ recs[m][14] # recs[k][14]

\* C24: a slot without bit 0x40 that is not the expected next one (another
\* index, or another checksum) discards the long name in progress: when no
\* slot with bit 0x40 comes after it, the regular record that follows is
\* emitted under its 8.3 name, whatever the later slots carry.
C24_OutOfSequenceDiscards ==
    \A <<j, p>> \in Places :
        YieldedOf(j, p) =>
            \A k \in 1..(p - 1) : \A m \in (k + 1)..(p - 1) :
                (/\ BrokenAt(ghost.records, k, m)
                 /\ \A i \in (m + 1)..(p - 1) :
                       IsSlot(ghost.records[i]) /\ ~StartsGroup(ghost.records[i]))
                    => walk.yielded[j].name \in ShortNames(ghost.records[p])

\* The same when no slot at all comes after the unexpected one.
LastSlotOutOfSequence ==
    \A <<j, p>> \in Places :
        YieldedOf(j, p) =>
            \A k \in 1..(p - 2) :
                BrokenAt(ghost.records, k, p - 1)
                    => walk.yielded[j].name \in ShortNames(ghost.records[p])

\* A deleted long-name slot, or a record of the long-name shape with
\* sequence byte 0.
IsDeadSlot(r) == DirEntryFrom(r) = "Lfn" /\ (r[1] = 229 \/ r[1] = 0)

HasDeadSlot(recs) ==
    \E k \in 1..Len(recs) :
        IsDeadSlot(recs[k]) /\ \A i \in 1..k : ~IsEndMarker(recs[i])

\* C25: a deleted long-name slot and a long-name-shaped record of sequence
\* 0 reset the long name in progress and do not end the stream: the regular
\* record right after one is emitted under its 8.3 name, and on a directory
\* with an end marker the stream yields every live record ahead of that
\* marker before it returns None.
C25_DeadSlotResets ==
    /\ \A <<j, p>> \in Places :
          (YieldedOf(j, p) /\ p > 1 /\ IsDeadSlot(ghost.records[p - 1]))
              => walk.yielded[j].name \in ShortNames(ghost.records[p])
    /\ (/\ walk.pc = "stream"
        /\ HasDeadSlot(ghost.records)
        /\ HasEndMarker(ghost.records)
        /\ walk.upto # -1)
          => /\ walk.upto = Len(Live(ghost.records))
             /\ YieldedAre(walk.upto)

\* What next() does at such records: a deleted slot is passed over with the
\* long name kept, and a record of sequence 0 is taken for the directory's
\* end.
DeadSlotKeepsOrEnds ==
    /\ \A <<j, p>> \in Places :
          (/\ YieldedOf(j, p)
           /\ p > 2
           /\ ghost.records[p - 1][1] = 229
           /\ IsDeadSlot(ghost.records[p - 1])
           /\ SlotsBefore(ghost.records, p - 1, 1)
           /\ ghost.records[p - 2][14] = Checksum(ghost.records[p]))
              => walk.yielded[j].name = Truncated(LfnUnits(ghost.records[p - 2]))
    /\ (/\ walk.pc = "stream"
        /\ walk.upto # -1
        /\ ~HasHighName(ghost.records)
        /\ HasEndMarker(ghost.records))
          => \/ walk.upto = Len(Live(ghost.records))
             \/ \E k \in 1..Len(ghost.records) :
                   /\ DirEntryFrom(ghost.records[k]) = "Lfn"
                   /\ ghost.records[k][1] = 0
                   /\ walk.upto = Cardinality({i \in 1..(k - 1) :
                                                  IsValid(ghost.records[i])})

\* A field of a record up to its first byte 0x00 or 0x20.
CutField(bytes) ==
    LET ends == { k \in 1..Len(bytes) : bytes[k] = 0 \/ bytes[k] = 32 }
    IN IF ends = {} THEN bytes
       ELSE SubSeq(bytes, 1, (CHOOSE k \in ends : \A i \in ends : k <= i) - 1)

\* The 8.3 name as the claim renders it.
Rendered(r) ==
    IF (r[12] \div 16) % 2 # 0 THEN CutField(SubSeq(r, 1, 8))
    ELSE IF r[9] # 32
    THEN CutField(SubSeq(r, 1, 8)) \o <<46>> \o CutField(SubSeq(r, 9, 11))
    ELSE CutField(SubSeq(r, 1, 8))

\* No long-name slot lies ahead of record p.
NoSlotsBefore(recs, p) == \A i \in 1..(p - 1) : DirEntryFrom(recs[i]) = "Regular"

\* C26: the short name of a file record is its name field cut at the first
\* 0x00 or 0x20, followed by '.' and the extension cut the same way only
\* when the extension's first byte is not 0x20; that of a directory record
\* is the cut name field alone.
C26_ShortNameRendering ==
    \A <<j, p>> \in Places :
        (YieldedOf(j, p) /\ NoSlotsBefore(ghost.records, p))
            => walk.yielded[j].name = Rendered(ghost.records[p])

\* What name() renders: the same, but for the '.', which every file record
\* gets.
ShortNameWithDot ==
    \A <<j, p>> \in Places :
        (YieldedOf(j, p) /\ NoSlotsBefore(ghost.records, p))
            => walk.yielded[j].name
                  = IF (ghost.records[p][12] \div 16) % 2 = 0
                       /\ ghost.records[p][9] = 32
                    THEN Rendered(ghost.records[p]) \o <<46>>
                    ELSE Rendered(ghost.records[p])

\* C28: once next() has returned None at the end marker, every later
\* next() on the stream returns None: no record behind the end marker is
\* emitted.  (On a directory without records of sequence 0 the end marker is
\* the one place where next() returns None.)
C28_NoneSticks ==
    (/\ walk.pc = "stream"
     /\ call.op = "next"
     /\ call.before = "none"
     /\ ~HasZeroSlot(ghost.records))
        => call.outcome = "none"

\* What next() does after None: it goes on with the records behind the end
\* marker, and aborts when the chain has no more of them.
NoneThenOnwards ==
    (/\ walk.pc = "stream"
     /\ call.op = "next"
     /\ call.before = "none"
     /\ call.outcome = "some")
        => \E p \in 1..Len(ghost.records) :
              /\ EntryFor(call.entry, ghost.records[p])
              /\ \E k \in 1..(p - 1) :
                    IsEndMarker(ghost.records[k]) \/ IsDeadSlot(ghost.records[k])

\* C29: on a directory whose chain ends without an end marker next()
\* returns None after the last record of the last cluster: the stream
\* yields the live records and ends, without aborting.
C29_FullDirectoryEnds ==
    (/\ walk.pc = "stream"
     /\ ~HasEndMarker(ghost.records)
     /\ ~HasHighName(ghost.records)
     /\ ~HasDeadSlot(ghost.records))
        => /\ walk.last # "panic"
           /\ (call.op = "next" /\ call.before = "some"
                 /\ Len(walk.yielded) = Len(Live(ghost.records))
                 /\ call.outcome # "some")
              => call.outcome = "none"

\* What next() does there: having yielded every live record, it aborts.
FullDirectoryAborts ==
    (/\ walk.pc = "stream"
     /\ ~HasEndMarker(ghost.records)
     /\ ~HasHighName(ghost.records)
     /\ ~HasDeadSlot(ghost.records))
        => /\ walk.last # "none"
           /\ walk.last = "panic" => /\ Len(walk.yielded) = Len(Live(ghost.records))
                                     /\ YieldedAre(Len(walk.yielded))

(***************************************************************************)
(* vfat/file.rs: File.  A file handle is                                   *)
(* [start_cluster, size, pos, curr]; a call of read ends in Ok(n)          *)
(* ("ok"), in Err(e) ("err") or in a panic, and leaves the handle as the   *)
(* loop's assignments made it.                                             *)
(***************************************************************************)

\* File::new.
FileNew(start_cluster, size) ==
    [start_cluster |-> start_cluster, size |-> size, pos |-> 0,
     curr |-> start_cluster]

\* The loop of File::read, `read` bytes of buf being written.
RECURSIVE FileReadLoop(_, _, _, _, _, _, _)
FileReadLoop(dev, part, cch, g, f, buf, read) ==
    LET cluster_bytes == g.bytes_per_sector * g.sectors_per_cluster
        cluster_offset == f.pos % cluster_bytes
        cluster_bytes_remaining == cluster_bytes - cluster_offset
        max_read == Min(Min(cluster_bytes_remaining, Len(buf) - read),
                        f.size - f.pos)
        ends(outcome, n, err, f2, buf2, c) ==
            [outcome |-> outcome, n |-> n, err |-> err, file |-> f2,
             buf |-> buf2, cache |-> c]
        advance(fe, f2, buf2, read2) ==
            IF fe.outcome = "err"
            THEN ends("err", 0, fe.err, f2, buf2, fe.cache)
            ELSE IF fe.outcome = "panic"
            THEN ends("panic", 0, None, f2, buf2, fe.cache)
            ELSE IF FatEntryStatus(fe.raw).tag = "Data"
            THEN FileReadLoop(dev, part, fe.cache, g,
                              [f2 EXCEPT !.curr = FatEntryStatus(fe.raw).val],
                              buf2, read2)
            ELSE ends("panic", 0, None, f2, buf2, fe.cache)
        copied(rc, f2, buf2, read2) ==
            IF f2.pos = f2.size THEN ends("ok", read2, None, f2, buf2, rc.cache)
            ELSE IF rc.n = cluster_bytes_remaining
            THEN advance(FatEntry(dev, part, rc.cache, g, f.curr), f2, buf2, read2)
            ELSE FileReadLoop(dev, part, rc.cache, g, f2, buf2, read2)
        cluster(rc) ==
            IF rc.outcome = "err"
            THEN ends("err", 0, rc.err, f,
                      SubSeq(buf, 1, read) \o rc.buf
                          \o SubSeq(buf, read + max_read + 1, Len(buf)),
                      rc.cache)
            ELSE IF rc.outcome = "panic"
            THEN ends("panic", 0, None, f, buf, rc.cache)
            ELSE copied(rc, [f EXCEPT !.pos = @ + rc.n],
                        SubSeq(buf, 1, read) \o rc.buf
                            \o SubSeq(buf, read + max_read + 1, Len(buf)),
                        read + rc.n)
    IN IF Len(buf) - read = 0 THEN ends("ok", read, None, f, buf, cch)
       ELSE cluster(ReadCluster(dev, part, cch, g, f.curr, cluster_offset,
                                SubSeq(buf, read + 1, read + max_read)))

\* A read that starts over from the file's first cluster.
FileReadFromStart(dev, part, cch, g, f, buf) ==
    IF f.size = 0
    THEN [outcome |-> "ok", n |-> 0, err |-> None, file |-> f, buf |-> buf,
          cache |-> cch]
    ELSE FileReadLoop(dev, part, cch, g, [f EXCEPT !.curr = f.start_cluster],
                      buf, 0)

\* A read that leaves curr at the cluster it started in.
FileReadKeepsCluster(dev, part, cch, g, f, buf) ==
    LET k(r) == [r EXCEPT !.file.curr = f.curr]
    IN IF f.size = 0
       THEN [outcome |-> "ok", n |-> 0, err |-> None, file |-> f, buf |-> buf,
             cache |-> cch]
       ELSE k(FileReadLoop(dev, part, cch, g, f, buf, 0))

\* <File as io::Read>::read(buf).
FileRead(dev, part, cch, g, f, buf) ==
    IF f.size = 0
    THEN [outcome |-> "ok", n |-> 0, err |-> None, file |-> f, buf |-> buf,
          cache |-> cch]
    ELSE FileReadLoop(dev, part, cch, g, f, buf, 0)

(***************************************************************************)
(* A file on an image.  The file's chain is any sequence of distinct data  *)
(* clusters, its size any that needs just that many clusters; one logical  *)
(* sector of the image at most is unreadable until the device is repaired. *)
(* The file is read with buffers of the lengths BufLens; the operations    *)
(* the read-only surface does not support are called too.  A panic ends    *)
(* the program.                                                            *)
(***************************************************************************)

FileChains ==
    { ch \in UNION {[1..n -> 2..MaxCluster] : n \in 0..(MaxCluster - 1)} :
        \A i, j \in 1..Len(ch) : i # j => ch[i] # ch[j] }

\* The table of a chain: its links, Eoc at its end, the other clusters free.
ChainTable(ch) ==
    [c \in 2..MaxCluster |->
        IF \E i \in 1..Len(ch) : ch[i] = c
        THEN LET i == CHOOSE k \in 1..Len(ch) : ch[k] = c
             IN IF i < Len(ch) THEN Link(ch[i + 1]) ELSE Eoc
        ELSE FreeMark]

FileSizes(lay, ch) ==
    { n \in 0..(Len(ch) * ClusterSize(lay)) :
        (n + ClusterSize(lay) - 1) \div ClusterSize(lay) = Len(ch) }

\* The physical sectors of logical sector l.
PhysicalOf(lay, l) ==
    LET factor == lay.sector_bytes \div lay.device_bytes
    IN { lay.start + l * factor + k : k \in 0..(factor - 1) }

FailingChoices(lay) ==
    {{}} \cup { PhysicalOf(lay, l) : l \in 1..(TotalSectors(lay) - 1) }

BufLens(lay) == {0, 1, ClusterSize(lay), ClusterSize(lay) + 1}

FileInit ==
    /\ \E lay \in ChainLayouts, ch \in FileChains :
          \E size \in FileSizes(lay, ch), failing \in FailingChoices(lay) :
             /\ device = ImageDevice(lay, ChainTable(ch), failing)
             /\ partition = [start |-> lay.start, sector_size |-> lay.sector_bytes]
             /\ geom = VFatFrom(Bpb(lay))
             /\ ghost = [layout |-> lay, fat |-> ChainTable(ch), chain |-> ch,
                         failed |-> failing # {}, got |-> <<>>]
             /\ walk = [pc |-> "open"]
                          @@ FileNew(IF ch = <<>> THEN 0 ELSE ch[1], size)
    /\ cache = <<>>
    /\ call = None

\* file.read(&mut buf), buf of any of the lengths; got keeps the bytes the
\* calls delivered.
CallRead ==
    /\ Running
    /\ \E len \in BufLens(ghost.layout) :
          LET returns(r) ==
                  /\ call' = [op |-> "read", len |-> len, outcome |-> r.outcome,
                              n |-> r.n, err |-> r.err, buf |-> r.buf,
                              before |-> walk]
                  /\ walk' = [pc |-> "open"] @@ r.file
                  /\ cache' = r.cache
                  /\ ghost' = [ghost EXCEPT
                                 !.got = IF r.outcome = "ok"
                                         THEN @ \o SubSeq(r.buf, 1, r.n) ELSE @]
          IN returns(FileRead(device, partition, cache, geom,
                              [start_cluster |-> walk.start_cluster,
                               size |-> walk.size, pos |-> walk.pos,
                               curr |-> walk.curr],
                              Filler(len)))
    /\ UNCHANGED <<device, partition, geom>>

\* file.write(buf), file.flush(), file.seek(pos), file.sync():
\* unimplemented!().
FileUnsupported ==
    /\ Running
    /\ \E op \in {"write", "flush", "seek", "sync"} :
          call' = [op |-> op, outcome |-> "panic", err |-> None]
    /\ UNCHANGED <<device, partition, cache, geom, walk, ghost>>

\* fs.create_file(path), fs.create_dir(path, parents), fs.rename(from, to),
\* fs.remove(path, children): unimplemented!("read only file system").
FsUnsupported ==
    /\ Running
    /\ \E op \in {"create_file", "create_dir", "rename", "remove"} :
          call' = [op |-> op, outcome |-> "panic", err |-> None]
    /\ UNCHANGED <<device, partition, cache, geom, walk, ghost>>

\* The unreadable sector is readable again.
FileRepair ==
    /\ Running
    /\ device.failing # {}
    /\ device' = [device EXCEPT !.failing = {}]
    /\ call' = [op |-> "repair", outcome |-> "ok"]
    /\ UNCHANGED <<partition, cache, geom, walk, ghost>>

FileNext == CallRead \/ FileUnsupported \/ FsUnsupported \/ FileRepair

SpecFile == FileInit /\ [][FileNext]_vars

\* The bytes of the file: its clusters along the chain, cut at its size.
Content ==
    SubSeq(Flatten([i \in 1..Len(ghost.chain) |->
                       ClusterBytes(ghost.layout, ghost.fat, ghost.chain[i])]),
           1, walk.size)

\* C15: on a device that never fails, the reads of a fresh file whose
\* chain has ceil(size / cluster_bytes) clusters deliver the file's bytes
\* in order, size bytes in all, whatever the lengths of the buffers, and a
\* read into a buffer that is not empty returns 0 only at pos = size.
C15_ReadDeliversContent ==
    (~ghost.failed) =>
        /\ walk.pos <= walk.size
        /\ ghost.got = SubSeq(Content, 1, walk.pos)
        /\ (call.op = "read") =>
              /\ call.outcome = "ok"
              /\ call.n = walk.pos - call.before.pos
              /\ (call.len > 0) => (call.n = 0 <=> call.before.pos = walk.size)

\* A file of two full clusters, the second ahead of the first on the
\* image, read to its end: the last read returned 0.
C15_Witness ==
    /\ ~ghost.failed
    /\ Len(ghost.chain) = 2
    /\ ghost.chain[1] > ghost.chain[2]
    /\ walk.size = 2 * ClusterSize(ghost.layout)
    /\ call.op = "read"
    /\ call.len > 0
    /\ call.n = 0
    /\ ghost.got = Content
    /\ Len(ghost.got) = walk.size

Unsupported ==
    {"write", "flush", "seek", "sync", "create_file", "create_dir", "rename",
     "remove"}

\* C16: write, flush, seek and sync of a File and create_file, create_dir,
\* rename and remove of the file system return an unsupported-operation
\* error: they do not abort, do not succeed, and leave the cursor and the
\* file system as they were.
C16_UnsupportedReturnsError ==
    (call.op \in Unsupported) =>
        /\ call.outcome = "err"
        /\ call.err.kind = "Unsupported"

\* C17: a read call in which a device read fails after earlier turns of its
\* loop copied n > 0 bytes returns the short count n, not the error, and
\* has moved pos by just these n bytes.
C17_FailureAfterCopyIsShortCount ==
    (call.op = "read" /\ walk.pos > call.before.pos) =>
        /\ call.outcome = "ok"
        /\ call.n = walk.pos - call.before.pos

\* What read does instead: the error is returned though pos has moved, and
\* the bytes copied before it are reported to nobody.
FailureAfterCopyIsError ==
    /\ call.op = "read"
    /\ call.outcome = "err"
    /\ walk.pos > call.before.pos
    /\ SubSeq(call.buf, 1, walk.pos - call.before.pos)
          = SubSeq(Content, call.before.pos + 1, walk.pos)

\* The chain cluster the cursor belongs to at byte pos: the one that holds
\* the byte, or the file's last when pos is the size.
ClusterOf(pos) ==
    IF pos = walk.size THEN ghost.chain[Len(ghost.chain)]
    ELSE ghost.chain[pos \div ClusterSize(ghost.layout) + 1]

\* C27: on a device that never fails, for a file whose chain has
\* ceil(size / cluster_bytes) clusters and any sequence of reads with
\* buffers of any length, empty ones included: 0 <= pos <= size, a call
\* returns at most buf.len() bytes, curr is the chain cluster of index
\* floor(pos / cluster_bytes), or the last one when pos = size, and no call
\* aborts at the end of the chain.
C27_CursorInvariant ==
    (~ghost.failed) =>
        /\ 0 <= walk.pos
        /\ walk.pos <= walk.size
        /\ ghost.chain # <<>> => walk.curr = ClusterOf(walk.pos)
        /\ (call.op = "read") =>
              /\ call.outcome = "ok"
              /\ call.n <= call.len
              /\ Len(call.buf) = call.len

\* A file of two full clusters read with a buffer of one cluster's length:
\* the first read stopped at the cluster boundary with curr at the second
\* cluster, the second at the file's end, and a read into an empty buffer
\* followed.
C27_Witness ==
    /\ ~ghost.failed
    /\ Len(ghost.chain) = 2
    /\ ghost.chain[1] > ghost.chain[2]
    /\ walk.size = 2 * ClusterSize(ghost.layout)
    /\ walk.pos = walk.size
    /\ walk.curr = ghost.chain[2]
    /\ call.op = "read"
    /\ call.len = 0
    /\ call.n = 0
    /\ call.before.pos = walk.size
    /\ Len(ghost.got) = walk.size

\* C30: after a read that returned a device error, whether from the
\* cluster's bytes or from the FAT entry, curr is the chain cluster that
\* holds byte pos, and a later read that succeeds returns the file's bytes
\* from pos on, never those of an earlier cluster.
C30_CursorAfterFailedRead ==
    /\ (call.op = "read" /\ call.outcome = "err" /\ ghost.chain # <<>>)
          => walk.curr = ClusterOf(walk.pos)
    /\ (call.op = "read" /\ call.outcome = "ok")
          => SubSeq(call.buf, 1, call.n)
                = SubSeq(Content, call.before.pos + 1, call.before.pos + call.n)

\* The same for the reads whose failure came from the bytes of a cluster:
\* there the cursor is where the last turn that copied left it.  After a
\* failure to read the FAT entry, pos is at a cluster's start and curr the
\* cluster before.
CursorAfterFailedClusterRead ==
    (/\ call.op = "read"
     /\ call.outcome = "err"
     /\ ghost.chain # <<>>
     /\ walk.curr # ClusterOf(walk.pos))
        => /\ walk.pos > call.before.pos
           /\ walk.pos % ClusterSize(ghost.layout) = 0
           /\ walk.pos < walk.size
           /\ walk.curr = ClusterOf(walk.pos - 1)
           /\ call.err.sector \in PhysicalOf(ghost.layout, FatSectorOf(walk.curr))

(***************************************************************************)
(* vfat/cache.rs: CachedDevice as a BlockDevice.  read_sector and          *)
(* write_sector work on the cached sectors only.                           *)
(***************************************************************************)

\* BlockDevice::sector_size() of the store: CachedDevice does not define
\* it, so it is the trait's default (512 bytes, here in the model's scale).
DefaultSectorSize == 2

\* <CachedDevice as BlockDevice>::read_sector(n, buf): buf.write(&entry.data)
\* on the slice.
StoreReadSector(cch, n, buf) ==
    IF n \in DOMAIN cch
    THEN [ok |-> TRUE, n |-> SliceWrite(buf, 0, cch[n].data).n,
          buf |-> SliceWrite(buf, 0, cch[n].data).buf, err |-> None]
    ELSE [ok |-> FALSE, n |-> 0, buf |-> buf, err |-> IoError("NotFound")]

\* <CachedDevice as BlockDevice>::write_sector(n, buf): entry.data is a
\* Vec<u8>, and Write for Vec<u8> appends.
StoreWriteSector(cch, n, buf) ==
    IF n \in DOMAIN cch
    THEN IF Len(buf) < DefaultSectorSize
         THEN [ok |-> FALSE, n |-> 0, err |-> IoError("UnexpectedEof"),
               cache |-> cch]
         ELSE [ok |-> TRUE, n |-> Len(buf), err |-> None,
               cache |-> [cch EXCEPT ![n] = [data |-> @.data \o buf,
                                             dirty |-> TRUE]]]
    ELSE [ok |-> FALSE, n |-> 0, err |-> IoError("NotFound"), cache |-> cch]

(***************************************************************************)
(* The store with all its operations: a store is built on a device of 1-   *)
(* or 2-byte sectors for a partition of 2-, 3- or 4-byte sectors, and get, *)
(* get_mut, read_sector, write_sector and virtual_to_physical are called   *)
(* in any order.  A cached sector takes writes while it has room for them  *)
(* within MaxData bytes.                                                   *)
(***************************************************************************)

MaxData == 8

StorePartitionSizes == {2, 3, 4}

\* The bytes a caller writes.
WriteBytes(len) == [i \in 1..len |-> 200 + i]

StoreInit ==
    /\ device \in {PatternDevice(size, failing) :
                      size \in DeviceSizes,
                      failing \in {{}} \cup {{p} : p \in 0..(DevSectors - 1)}}
    /\ \E start \in PartitionStarts, size \in StorePartitionSizes :
          /\ CachedDeviceNew(device, [start |-> start, sector_size |-> size]).ok
          /\ partition = [start |-> start, sector_size |-> size]
    /\ cache = <<>>
    /\ geom = None
    /\ call = None
    /\ walk = Idle
    /\ ghost = [written |-> [s \in 0..MaxSector |-> <<>>]]

StoreAccess(name, dirty) ==
    \E sector \in 0..MaxSector :
        LET returns(r) ==
                /\ call' = [op |-> name, sector |-> sector, ok |-> r.ok,
                            data |-> r.data, err |-> r.err, reads |-> r.reads,
                            before |-> cache]
                /\ cache' = r.cache
        IN /\ returns(GetInternal(device, partition, cache, sector, dirty))
           /\ UNCHANGED <<device, partition, geom, walk, ghost>>

StoreGet == StoreAccess("get", FALSE)

StoreGetMut == StoreAccess("get_mut", TRUE)

CallReadSector ==
    \E sector \in 0..MaxSector, len \in {1, MaxData} :
        LET returns(r) ==
                call' = [op |-> "read_sector", sector |-> sector, ok |-> r.ok,
                         n |-> r.n, buf |-> r.buf, err |-> r.err,
                         before |-> cache]
        IN /\ returns(StoreReadSector(cache, sector, Filler(len)))
           /\ UNCHANGED <<device, partition, cache, geom, walk, ghost>>

CallWriteSector ==
    \E sector \in 0..MaxSector, len \in {1, partition.sector_size} :
        /\ sector \in DOMAIN cache => Len(cache[sector].data) + len <= MaxData
        /\ LET returns(r) ==
                   /\ call' = [op |-> "write_sector", sector |-> sector,
                               ok |-> r.ok, n |-> r.n, buf |-> WriteBytes(len),
                               err |-> r.err, before |-> cache]
                   /\ cache' = r.cache
                   /\ ghost' = [ghost EXCEPT
                                  !.written[sector] = IF r.ok THEN WriteBytes(len)
                                                      ELSE @]
           IN returns(StoreWriteSector(cache, sector, WriteBytes(len)))
        /\ UNCHANGED <<device, partition, geom, walk>>

CallVirtualToPhysical ==
    /\ \E virt \in 0..(MaxSector + 1) :
          call' = [op |-> "virtual_to_physical", virt |-> virt,
                   result |-> VirtualToPhysical(device, partition, virt)]
    /\ UNCHANGED <<device, partition, cache, geom, walk, ghost>>

StoreNext ==
    \/ StoreGet
    \/ StoreGetMut
    \/ CallReadSector
    \/ CallWriteSector
    \/ CallVirtualToPhysical

SpecStore == StoreInit /\ [][StoreNext]_vars

\* The range the claim gives for v: v alone when the sizes are equal or v
\* lies before the partition, else the `factor` sectors from
\* start + (v - start) * factor on.
PhysicalRange(v) ==
    LET factor == partition.sector_size \div device.sector_size
        first == IF device.sector_size = partition.sector_size
                    \/ v < partition.start
                 THEN v ELSE partition.start + (v - partition.start) * factor
        count == IF device.sector_size = partition.sector_size
                    \/ v < partition.start
                 THEN 1 ELSE factor
    IN [k \in 1..count |-> first + (k - 1)]

IsMiss == IsAccess /\ call.sector \notin DOMAIN call.before

\* C18: virtual_to_physical(v) is (v, 1) when the sector sizes are equal or
\* v < partition.start, else (start + (v - start) * factor, factor); on a
\* miss the sectors of that range are read in ascending order into one
\* buffer, up to the first that cannot be read.
C18_PhysicalRange ==
    /\ (call.op = "virtual_to_physical") =>
          /\ call.result[1] = PhysicalRange(call.virt)[1]
          /\ call.result[2] = Len(PhysicalRange(call.virt))
    /\ IsMiss =>
          LET range == PhysicalRange(call.sector + partition.start) IN
          IF call.ok
          THEN /\ call.reads = range
               /\ call.data = Flatten([k \in 1..Len(range) |->
                                          device.data[range[k]]])
               /\ cache[call.sector].data = call.data
          ELSE /\ call.reads = SubSeq(range, 1, Len(call.reads))
               /\ call.reads # <<>>
               /\ Unreadable(call.reads[Len(call.reads)])
               /\ \A k \in 1..(Len(call.reads) - 1) : ~Unreadable(call.reads[k])

\* A miss on a partition that starts at sector 1 with sectors twice the
\* device's: two device sectors are read.
C18_Witness ==
    /\ IsMiss
    /\ call.ok
    /\ partition.start = 1
    /\ call.sector = 1
    /\ call.reads = <<3, 4>>
    /\ call.data = <<3, 4>>

\* C19: when the sector sizes differ, get(n) for n before partition.start
\* reads physical sector n alone and caches a buffer of the device's sector
\* size, and get(n) for n at or after partition.start reads logical sector
\* n - partition.start and caches partition.sector_size bytes.
C19_GetBeforeStartIsPhysical ==
    (IsMiss /\ call.ok /\ device.sector_size # partition.sector_size) =>
        IF call.sector < partition.start
        THEN /\ call.reads = <<call.sector>>
             /\ Len(cache[call.sector].data) = device.sector_size
        ELSE /\ call.reads = PhysicalRange(call.sector)
             /\ Len(cache[call.sector].data) = partition.sector_size

\* What get(n) does: n is a sector of the partition, whatever its number.
GetIsLogical ==
    (IsMiss /\ call.ok) => call.reads = PhysicalRange(call.sector + partition.start)

\* C20: on a store whose partition sector size is a multiple of the
\* device's, every cached sector holds partition.sector_size bytes after
\* any calls of get, get_mut, read_sector and write_sector; write_sector
\* on a cached sector replaces its bytes and keeps its length, and the
\* read_sector that follows returns the bytes written.
C20_CachedSectorKeepsSize ==
    (partition.sector_size % device.sector_size = 0) =>
        /\ \A s \in DOMAIN cache : Len(cache[s].data) = partition.sector_size
        /\ (call.op = "write_sector" /\ call.ok) =>
              /\ Len(cache[call.sector].data) = Len(call.before[call.sector].data)
              /\ SubSeq(cache[call.sector].data, 1, Len(call.buf)) = call.buf
        /\ (call.op = "read_sector" /\ call.ok
              /\ ghost.written[call.sector] # <<>>) =>
              LET n == Min(call.n, Len(ghost.written[call.sector])) IN
              SubSeq(call.buf, 1, n) = SubSeq(ghost.written[call.sector], 1, n)

\* Without write_sector the cached sectors keep their size.
CachedSectorSizeUnlessWritten ==
    (partition.sector_size % device.sector_size = 0) =>
        \A s \in DOMAIN cache :
            ghost.written[s] = <<>> => Len(cache[s].data) = partition.sector_size

(***************************************************************************)
(* VFat::fat_entry over the whole range of cluster numbers.  The BIOS      *)
(* parameter block declares the volume's size, which VFat::from takes as   *)
(* it stands: here it is the image's size, a few sectors less, or a size   *)
(* that admits every 28-bit cluster number over a device that holds the    *)
(* volume's first sectors only.                                            *)
(***************************************************************************)

\* The raw 32-bit values a cluster is made from, as bytes.
EntryRaws ==
    { <<0, 0, 0, 0>>, <<1, 0, 0, 0>>, <<2, 0, 0, 0>>, <<3, 0, 0, 0>>,
      <<4, 0, 0, 0>>, <<2, 0, 0, 240>>, <<3, 0, 0, 64>>, <<0, 64, 0, 0>>,
      <<1, 64, 0, 0>>, <<255, 255, 255, 7>>, <<255, 255, 255, 15>>,
      <<254, 255, 255, 255>>, <<255, 255, 255, 255>> }

\* The sizes a BIOS parameter block declares for the volume of layout lay.
DeclaredSectors(lay) ==
    {TotalSectors(lay), TotalSectors(lay) - lay.sectors_per_cluster,
     TotalSectors(lay) + 268435456}

EntryInit ==
    /\ \E lay \in Layouts : \E declared \in DeclaredSectors(lay) :
          /\ device = ImageDevice(lay, OneChain, {})
          /\ partition = [start |-> lay.start, sector_size |-> lay.sector_bytes]
          /\ geom = VFatFrom([Bpb(lay) EXCEPT !.logical_sectors_small = 0,
                                              !.logical_sectors_large = declared])
          /\ ghost = [layout |-> lay, fat |-> OneChain, declared |-> declared]
    /\ cache = <<>>
    /\ call = None
    /\ walk = Idle

FatEntryOf ==
    /\ \E raw \in EntryRaws :
          LET returns(r) ==
                  /\ call' = [op |-> "fat_entry", from |-> raw,
                              outcome |-> r.outcome, raw |-> r.raw, err |-> r.err,
                              gets |-> r.gets, reads |-> r.reads,
                              before |-> cache]
                  /\ cache' = r.cache
          IN returns(FatEntry(device, partition, cache, geom, ClusterFrom(raw)))
    /\ UNCHANGED <<device, partition, geom, walk, ghost>>

\* The cache is dropped with the file system and the volume mounted anew.
Remount ==
    /\ cache # <<>>
    /\ cache' = <<>>
    /\ call' = [op |-> "remount", outcome |-> "ok"]
    /\ UNCHANGED <<device, partition, geom, walk, ghost>>

EntryNext == FatEntryOf \/ Remount

SpecEntry == EntryInit /\ [][EntryNext]_vars

\* C22: fat_entry(cluster) aborts, reading nothing, when cluster - 2 is not
\* below data_sectors (clusters 0 and 1 included); otherwise it goes to
\* logical sector fat_start_sector + (cluster * 4) div bytes_per_sector and,
\* when the device holds that sector, returns the four bytes at offset
\* (cluster * 4) mod bytes_per_sector of it, for every 28-bit cluster.
C22_FatEntryLocation ==
    (call.op = "fat_entry") =>
        LET lay == ghost.layout
            c == Low28(call.from)
            data_sectors == ghost.declared - (1 + lay.fat_count * SectorsPerFat(lay))
            sector == 1 + (c * 4) \div lay.sector_bytes
            offset == (c * 4) % lay.sector_bytes
        IN IF c < 2 \/ c - 2 >= data_sectors
           THEN /\ call.outcome = "panic"
                /\ call.gets = <<>>
                /\ call.reads = <<>>
                /\ cache = call.before
           ELSE /\ call.gets = <<sector>>
                /\ IF sector < TotalSectors(lay)
                   THEN /\ call.outcome = "ok"
                        /\ call.raw = SubSeq(LogicalSector(lay, ghost.fat, sector),
                                             offset + 1, offset + 4)
                   ELSE /\ call.outcome = "err"
                        /\ call.err =
                             DeviceError(lay.start
                                + sector * (lay.sector_bytes \div lay.device_bytes))

\* The entry of the largest 28-bit cluster is looked for in the sector that
\* cluster * 4 gives, which the device does not hold.
C22_Witness ==
    /\ call.op = "fat_entry"
    /\ call.from = <<255, 255, 255, 255>>
    /\ call.outcome = "err"
    /\ call.gets = <<1 + 1073741820 \div ghost.layout.sector_bytes>>

\* The logical sectors VFat::coords gives for the whole of cluster c.
SectorsOf(c) == Coords(geom, c, 0).start..(Coords(geom, c, 0).end - 1)

\* C31: a cluster that fat_entry's bounds check accepts lies inside the
\* data region: each of its logical sectors, data_start_sector
\* + (c - 2) x sectors_per_cluster and the sectors_per_cluster - 1 after it,
\* is below data_start_sector + data_sectors.
C31_AcceptedClusterInDataRegion ==
    (call.op = "fat_entry" /\ call.outcome # "panic") =>
        \A s \in SectorsOf(Low28(call.from)) :
            s < geom.data_start_sector + geom.data_sectors

\* The same on the volumes of one sector per cluster, where the count of
\* sectors is the count of clusters.
AcceptedClusterInDataRegionOneSector ==
    (call.op = "fat_entry" /\ call.outcome # "panic"
        /\ geom.sectors_per_cluster = 1) =>
        \A s \in SectorsOf(Low28(call.from)) :
            s < geom.data_start_sector + geom.data_sectors

\* A step keeps every cached sector as it is; it may insert missing ones.
OnlyInserts ==
    \A s \in DOMAIN cache : s \in DOMAIN cache' /\ cache'[s] = cache[s]

\* C32: the read path never dirties the cache: after any calls of
\* read_cluster and fat_entry (and of what is built on them: read_chain,
\* directory enumeration, File::read, open) every cached sector has
\* dirty = false, and a call changes the cache only by inserting sectors
\* that were missing.
C32_ReadPathKeepsCacheClean ==
    /\ [](\A s \in DOMAIN cache : ~cache[s].dirty)
    /\ [][OnlyInserts]_vars

\* What the read path keeps: the bytes of every cached sector; and it is a
\* fat_entry call, which takes its sector with get_mut, that sets a
\* sector's dirty flag.
ReadPathKeepsCachedBytes ==
    [][/\ \A s \in DOMAIN cache :
             s \in DOMAIN cache' /\ cache'[s].data = cache[s].data
       /\ (\E s \in DOMAIN cache' :
              cache'[s].dirty /\ (s \in DOMAIN cache => ~cache[s].dirty))
          => call'.op = "fat_entry"]_vars

====
